---------------------------- MODULE Spec2Model ----------------------------
(***************************************************************************)
(* Model of maas_cpu_analyzer.py (class MAASCPUAnalyzer).                  *)
(*                                                                         *)
(* Its parts, each with its own specification:                             *)
(*   SpecTraits  _set_resource_provider_traits against a placement service *)
(*               whose responses are chosen nondeterministically;          *)
(*   SpecWrite   one iteration of the assign and clear loops around it,    *)
(*               request by request, with another writer at work;          *)
(*   SpecName    generate_trait_name applied to bounded CPU model strings; *)
(*   SpecFilter  filter_machines applied to bounded machine lists;         *)
(*   SpecCache   token, catalog and endpoint discovery and their caches;   *)
(*   SpecClient  the methods of the placement client that use them;        *)
(*   SpecRun     main and run, one loop iteration at a time.               *)
(* Strings whose characters matter are sequences of one-character strings. *)
(***************************************************************************)
EXTENDS Integers, Sequences, FiniteSets, TLC

VARIABLES
    \* ---- _set_resource_provider_traits (one call at a time) ----
    pc,             \* "idle" | "get" | "put" | "done": position in the method
    attempt,        \* the loop variable of `for attempt in range(MAX_RETRIES)`
    generation,     \* the local `generation`
    trait_names,    \* the argument `trait_names`
    result,         \* "none" while running, then "True" | "False"
    api_calls,      \* this call's uses of _make_placement_api_request, in order
    calls,          \* number of calls started
    rp_generation,  \* placement service: the provider's generation
    rp_traits,      \* placement service: the provider's trait list
    \* ---- the callers of _set_resource_provider_traits: one iteration of
    \*      the loop of assign_cpu_traits_to_hypervisors or of
    \*      clear_openstack_traits ----
    caller,                \* "none" | "assign" | "clear"
    hypervisor_hostname,   \* assign: the local `hv_hostname`
    trait_name,            \* assign: the local `trait_name`
    provider_list,         \* the local `resource_providers`
    provider,              \* the local `resource_provider`: <<>> for None,
                           \* else <<the provider at hand>>
    traits_response,       \* "none" | "ok" | "failed": the read of its traits
    current_trait_names,   \* what _get_resource_provider_traits returned
    \* ---- generate_trait_name ----
    name_pc,        \* "input" | "derived" | "rederived"
    cpu_model,      \* the argument: [none |-> BOOLEAN, s |-> characters]
    trait,          \* generate_trait_name(cpu_model)
    trait2,         \* generate_trait_name(trait)
    vendor,         \* get_cpu_vendor(cpu_model), once called
    \* ---- filter_machines ----
    filter_pc,      \* "input" | "returned"
    machines,       \* the argument `machines`
    zone,           \* the argument `zone`: [none |-> BOOLEAN, s |-> string]
    deployed_only,  \* the argument `deployed_only`
    tags,           \* the argument `tags`
    filtered,       \* the outcome: [raised |-> BOOLEAN, list |-> machines]
    \* ---- token, catalog and endpoint discovery ----
    auth_token,         \* self._auth_token
    placement_endpoint, \* self._placement_endpoint
    session,            \* self._session: 0 for None, else the session's number
    service_catalog,    \* self._service_catalog
    service_endpoints,  \* self._service_endpoints: <<service, interface>> -> url
    environ,            \* which OS_* variables are set
    cloud_catalog,      \* identity service: the body of its catalog
    http_log,           \* the HTTP requests sent, in order
    sessions,           \* sessions created: [created |-> number, closed |-> set]
    obtained,           \* what has been obtained since the last _clear_cache
    last_call,          \* the last method called, what it was given and returned
    \* ---- main and run (these use machines, zone, deployed_only, tags and
    \*      the cache fields above as well) ----
    run_pc,         \* position in main/run: the method about to be executed
    args,           \* the parsed command line flags
    maas_environ,   \* MAAS_URL and MAAS_API_KEY
    exit_status,    \* -1 while running, then the exit status of the process
    events,         \* what the process has done so far, in order
    todo,           \* the items the current loop has still to visit
    counts,         \* the counters of the current method
    hypervisor_map, \* the local `hypervisor_map` of the assign phase
    custom_traits   \* the local `custom_traits` of the clear phase

writeVars == <<caller, hypervisor_hostname, trait_name, provider_list, provider,
               traits_response, current_trait_names>>
traitVars == <<pc, attempt, generation, trait_names, result, api_calls, calls,
               rp_generation, rp_traits, writeVars>>
nameVars == <<name_pc, cpu_model, trait, trait2, vendor>>
filterVars == <<filter_pc, machines, zone, deployed_only, tags, filtered>>
cacheVars == <<auth_token, placement_endpoint, session, service_catalog,
               service_endpoints, environ, cloud_catalog, http_log, sessions,
               obtained, last_call>>
runVars == <<run_pc, args, maas_environ, exit_status, events, todo, counts,
             hypervisor_map, custom_traits>>
vars == <<traitVars, nameVars, filterVars, cacheVars, runVars>>

-----------------------------------------------------------------------------
(* Bounds of the model *)

MaxCalls == 2          \* calls of _set_resource_provider_traits per behaviour
MaxGeneration == 3     \* the provider's generation is capped here
MaxPieces == 3         \* pieces a CPU model string is made of
MaxInventory == 4      \* machines plus tags in a machine list
MaxRequests == 3       \* HTTP requests of token and catalog discovery
MaxItems == 2          \* machines, providers or traits that a loop of run visits

-----------------------------------------------------------------------------
(* Class constants *)

MAX_RETRIES_OneMore == 3 + 1

MAX_RETRIES == 3

SUCCESS_HTTP_CODES == {200, 201, 204}

\* Trait lists used as arguments and as provider state.
TraitLists ==
    { <<>>,
      << <<"C","U","S","T","O","M","_","X">> >>,
      << <<"H","W","_","A">>, <<"C","U","S","T","O","M","_","X">> >> }

-----------------------------------------------------------------------------
(* The placement service as seen through _make_placement_api_request *)

\* What one call of _make_placement_api_request can produce:
\*   kind "unsent"     ValueError raised before any request is sent
\*                     (no endpoint or no token);
\*   kind "exception"  the request was sent and session.request raised;
\*   kind "response"   a response with a status code and a body.
NoBody == [json_ok |-> FALSE, has_generation |-> FALSE, generation |-> 0]

Outcome(kind, code, body) == [kind |-> kind, status_code |-> code, body |-> body]

FailureOutcomes ==
    { Outcome("unsent", 0, NoBody), Outcome("exception", 0, NoBody) }

\* GET /resource_providers/{uuid}: a success carries the provider's current
\* generation, a body without the field, or a body that is not JSON.
GetOutcomes ==
    FailureOutcomes
    \cup { Outcome("response", c, NoBody) : c \in {200, 404} \ SUCCESS_HTTP_CODES }
    \cup { Outcome("response", c, b) :
             c \in {200, 404} \cap SUCCESS_HTTP_CODES,
             b \in { NoBody,
                     [json_ok |-> TRUE, has_generation |-> FALSE, generation |-> 0],
                     [json_ok |-> TRUE, has_generation |-> TRUE,
                      generation |-> rp_generation] } }

\* PUT /resource_providers/{uuid}/traits: the service accepts the write only
\* when the generation sent is the provider's current one; it may answer 409
\* or another error at any time.
PutOutcomes ==
    FailureOutcomes
    \cup { Outcome("response", c, NoBody) :
             c \in { s \in {200, 204, 409, 500} :
                       s \in SUCCESS_HTTP_CODES => generation = rp_generation } }

IsSuccess(o) == o.kind = "response" /\ o.status_code \in SUCCESS_HTTP_CODES

Sent(r) == r.response.kind # "unsent"

Request(method, gen, o) ==
    [method |-> method, resource_provider_generation |-> gen, response |-> o]

-----------------------------------------------------------------------------
(* _set_resource_provider_traits *)

\* rp_data.get("generation", 0)
ReadGeneration(body) == IF body.has_generation THEN body.generation ELSE 0

\* `elif response.status_code == 409 and attempt < self.MAX_RETRIES - 1`
ShouldRetry_OneFewer(status_code, att) == status_code = 409 /\ att < MAX_RETRIES - 2

ShouldRetry(status_code, att) == status_code = 409 /\ att < MAX_RETRIES - 1

\* Where `continue` leads: the top of the loop body, which reads the
\* generation again.
ContinueTarget_ReuseGeneration == "put"

ContinueTarget == "get"

set_resource_provider_traits_call ==
    /\ pc \in {"idle", "done"}
    /\ calls < MaxCalls
    /\ \E names \in TraitLists : trait_names' = names
    /\ pc' = "get"
    /\ attempt' = 0
    /\ generation' = 0
    /\ result' = "none"
    /\ api_calls' = <<>>
    /\ calls' = calls + 1
    /\ UNCHANGED <<rp_generation, rp_traits, writeVars, nameVars, filterVars,
                   cacheVars, runVars>>

\* Lines 294-310: GET the provider, read its generation.
set_resource_provider_traits_get ==
    /\ pc = "get"
    /\ \E o \in GetOutcomes :
        /\ api_calls' = Append(api_calls, Request("GET", 0, o))
        /\ IF IsSuccess(o) /\ o.body.json_ok
             THEN /\ generation' = ReadGeneration(o.body)
                  /\ pc' = "put"
                  /\ result' = result
             ELSE /\ generation' = generation
                  /\ pc' = "done"
                  /\ result' = "False"
    /\ UNCHANGED <<attempt, trait_names, calls, rp_generation, rp_traits,
                   writeVars, nameVars, filterVars, cacheVars, runVars>>

\* Lines 313-340: PUT the trait list with the generation just read.
set_resource_provider_traits_put ==
    /\ pc = "put"
    /\ \E o \in PutOutcomes :
        /\ api_calls' = Append(api_calls, Request("PUT", generation, o))
        /\ IF IsSuccess(o)
             THEN /\ pc' = "done"
                  /\ result' = "True"
                  /\ attempt' = attempt
                  /\ rp_traits' = trait_names
                  /\ rp_generation' = rp_generation + 1
             ELSE /\ UNCHANGED <<rp_traits, rp_generation>>
                  /\ IF o.kind = "response" /\ ShouldRetry(o.status_code, attempt)
                       THEN \* continue: next iteration, or line 342 when
                            \* the range is exhausted
                            /\ attempt' = attempt + 1
                            /\ IF attempt + 1 < MAX_RETRIES
                                 THEN pc' = ContinueTarget /\ result' = result
                                 ELSE pc' = "done" /\ result' = "False"
                       ELSE /\ attempt' = attempt
                            /\ pc' = "done"
                            /\ result' = "False"
    /\ UNCHANGED <<generation, trait_names, calls, writeVars, nameVars, filterVars,
                   cacheVars, runVars>>

\* Another client of the placement service changes the provider's traits,
\* which advances its generation.
ExternalWrite ==
    /\ rp_generation < MaxGeneration
    /\ rp_generation' = rp_generation + 1
    /\ \E t \in TraitLists : rp_traits' = t
    /\ UNCHANGED <<pc, attempt, generation, trait_names, result, api_calls, calls,
                   writeVars, nameVars, filterVars, cacheVars, runVars>>

TraitsInit ==
    /\ pc = "idle"
    /\ attempt = 0
    /\ generation = 0
    /\ trait_names = <<>>
    /\ result = "none"
    /\ api_calls = <<>>
    /\ calls = 0
    /\ rp_generation \in 0..1
    /\ rp_traits \in TraitLists
    \* the method is called on its own
    /\ caller = "none" /\ hypervisor_hostname = <<>> /\ trait_name = <<>>
    /\ provider_list = <<>> /\ provider = <<>>
    /\ traits_response = "none" /\ current_trait_names = <<>>

-----------------------------------------------------------------------------
(* generate_trait_name *)

LowerLetters ==
    <<"a","b","c","d","e","f","g","h","i","j","k","l","m",
      "n","o","p","q","r","s","t","u","v","w","x","y","z">>

UpperLetters ==
    <<"A","B","C","D","E","F","G","H","I","J","K","L","M",
      "N","O","P","Q","R","S","T","U","V","W","X","Y","Z">>

Range(s) == { s[i] : i \in DOMAIN s }

\* The class [A-Z0-9].
UpperAlnum ==
    Range(UpperLetters) \cup {"0","1","2","3","4","5","6","7","8","9"}

\* The class \s, on the characters of the model.
Whitespace == {" ", "\t", "\n"}

\* cpu_model.upper()
upper(s) ==
    [i \in DOMAIN s |->
       IF \E k \in DOMAIN LowerLetters : LowerLetters[k] = s[i]
         THEN UpperLetters[CHOOSE k \in DOMAIN LowerLetters : LowerLetters[k] = s[i]]
         ELSE s[i]]

CPU == <<"C","P","U">>

PROCESSOR == <<"P","R","O","C","E","S","S","O","R">>

INTEL == <<"I","N","T","E","L">>

AMD == <<"A","M","D">>

CUSTOM_ == <<"C","U","S","T","O","M","_">>

CUSTOM_UNKNOWN_ == CUSTOM_ \o <<"U","N","K","N","O","W","N","_">>

CUSTOM_UNKNOWN_EMPTY == CUSTOM_UNKNOWN_ \o <<"E","M","P","T","Y">>

\* s[a..b] = t
MatchAt(s, a, t) ==
    /\ a >= 1
    /\ a + Len(t) - 1 <= Len(s)
    /\ SubSeq(s, a, a + Len(t) - 1) = t

\* `x in s` for strings
Contains(s, t) == \E a \in 1..Len(s) : MatchAt(s, a, t)

\* The positions where `$` matches (no MULTILINE flag): the end of the
\* string, and just before a newline that is the last character.
DollarPositions(s) ==
    {Len(s)} \cup (IF Len(s) > 0 /\ s[Len(s)] = "\n" THEN {Len(s) - 1} ELSE {})

\* The matches of (CPU|PROCESSOR)$ in s, as <<first, last>> positions.
TokenMatches(s) ==
    { <<t, e>> \in (1..Len(s)) \X DollarPositions(s) :
        \E tok \in {CPU, PROCESSOR} :
          MatchAt(s, t, tok) /\ t + Len(tok) - 1 = e }

\* The matches of \s+(CPU|PROCESSOR)$ in s starting at any position, as
\* <<first, last>> positions.
SuffixMatches(s) ==
    { <<a, e>> \in (1..Len(s)) \X DollarPositions(s) :
        \E t \in (a + 1)..Len(s) :
          /\ <<t, e>> \in TokenMatches(s)
          /\ \A i \in a..(t - 1) : s[i] \in Whitespace }

\* re.sub("", s): the scan takes the leftmost match; the pattern ends in `$`
\* and a token ends at one position at most, so there is no second match.
RemoveLeftmost(s, ms) ==
    IF ms = {} THEN s
    ELSE LET m == CHOOSE m \in ms : \A n \in ms : m[1] <= n[1]
         IN  SubSeq(s, 1, m[1] - 1) \o SubSeq(s, m[2] + 1, Len(s))

\* the pattern without its \s+
CPU_PROCESSOR_PATTERN_sub_NoSpace(s) == RemoveLeftmost(s, TokenMatches(s))

\* _CPU_PROCESSOR_PATTERN.sub("", s), the pattern being \s+(CPU|PROCESSOR)$
CPU_PROCESSOR_PATTERN_sub(s) == RemoveLeftmost(s, SuffixMatches(s))

\* _SPECIAL_CHARS_PATTERN.sub("_", s), the pattern being [^A-Z0-9]
SPECIAL_CHARS_PATTERN_sub(s) ==
    [i \in DOMAIN s |-> IF s[i] \in UpperAlnum THEN s[i] ELSE "_"]

RECURSIVE MULTIPLE_UNDERSCORES_PATTERN_sub(_)
\* _MULTIPLE_UNDERSCORES_PATTERN.sub("_", s), the pattern being _+
MULTIPLE_UNDERSCORES_PATTERN_sub(s) ==
    IF Len(s) <= 1 THEN s
    ELSE IF s[1] = "_" /\ s[2] = "_"
      THEN MULTIPLE_UNDERSCORES_PATTERN_sub(Tail(s))
      ELSE <<s[1]>> \o MULTIPLE_UNDERSCORES_PATTERN_sub(Tail(s))

\* str.strip(ch)
strip(s, ch) ==
    LET keep == { i \in DOMAIN s : s[i] # ch } IN
    IF keep = {} THEN <<>>
    ELSE SubSeq(s, CHOOSE i \in keep : \A j \in keep : i <= j,
                   CHOOSE i \in keep : \A j \in keep : i >= j)

\* Lines 698-710: the cleaned name.
cpu_clean(s) ==
    strip(MULTIPLE_UNDERSCORES_PATTERN_sub(
            SPECIAL_CHARS_PATTERN_sub(
              CPU_PROCESSOR_PATTERN_sub(upper(s)))), "_")

\* A Python str or None.
Str(s) == [none |-> FALSE, s |-> s]

None == [none |-> TRUE, s |-> <<>>]

generate_trait_name(m) ==
    IF m.none \/ m.s = <<>>
      THEN CUSTOM_UNKNOWN_EMPTY
      ELSE LET clean == cpu_clean(m.s) IN
           IF Contains(clean, INTEL) THEN CUSTOM_ \o clean
           ELSE IF Contains(clean, AMD) THEN CUSTOM_ \o clean
           ELSE CUSTOM_UNKNOWN_ \o clean

\* The CPU model strings of the model: up to MaxPieces of these pieces, one
\* after the other, and the strings of the unit tests.  "U+0130" is the one
\* character LATIN CAPITAL LETTER I WITH DOT ABOVE, which str.upper() leaves
\* as it is and which re.IGNORECASE takes for an i.
Pieces ==
    { <<"I","n","t","e","l">>, <<"A","M","D">>, <<"C","P","U">>,
      <<"P","r","o","c","e","s","s","o","r">>, <<"x","7">>,
      <<" ">>, <<"-">>, <<"_">>, <<"\n">>, <<"U+0130","n","t","e","l">> }

RECURSIVE Concatenations(_)
Concatenations(n) ==
    IF n = 0 THEN { <<>> }
    ELSE LET shorter == Concatenations(n - 1)
         IN  shorter \cup { s \o p : s \in shorter, p \in Pieces }

CpuModels ==
    LET TestModels ==
          { <<"I","n","t","e","l","(","R",")"," ","X","e","o","n","(","R",")"," ",
              "C","P","U"," ","E","5","-","2","6","8","0"," ","v","4"," ","@"," ",
              "2",".","4","0","G","H","z">>,
            <<"A","M","D"," ","E","P","Y","C"," ","7","5","5","1","P"," ","3","2",
              "-","C","o","r","e"," ","P","r","o","c","e","s","s","o","r">>,
            <<"S","o","m","e"," ","R","a","n","d","o","m"," ","C","P","U">> }
    IN  {None} \cup { Str(s) : s \in Concatenations(MaxPieces) \cup TestModels }

UNKNOWN == <<"U","N","K","N","O","W","N">>

\* _INTEL_AMD_PATTERN.search(s).group(1).upper(), the pattern being
\* (?i)(intel|amd): the leftmost place where either name starts, letters
\* compared without their case; the text matched there, in upper case.
INTEL_AMD_PATTERN_search(s) ==
    LET u == [i \in DOMAIN s |-> IF s[i] = "U+0130" THEN "I" ELSE upper(<<s[i]>>)[1]]
        starts == { a \in 1..Len(u) : MatchAt(u, a, INTEL) \/ MatchAt(u, a, AMD) }
    IN  IF starts = {} THEN None
        ELSE LET a == CHOOSE a \in starts : \A b \in starts : a <= b
             IN  Str(upper(SubSeq(s, a, a + (IF MatchAt(u, a, INTEL) THEN 4 ELSE 2))))

\* Lines 676-684.  The second `return "UNKNOWN"` stands inside the `if
\* match:` block behind a return; without a match the method falls off its
\* end and returns None.
get_cpu_vendor(m) ==
    IF m.none \/ m.s = <<>> THEN Str(UNKNOWN)
    ELSE LET match == INTEL_AMD_PATTERN_search(m.s) IN
         IF ~match.none THEN match ELSE None

NameInit ==
    /\ name_pc = "input"
    /\ cpu_model \in CpuModels
    /\ trait = <<>>
    /\ trait2 = <<>>
    /\ vendor = [called |-> FALSE, none |-> TRUE, s |-> <<>>]

\* trait_name = self.generate_trait_name(cpu_model)
Derive ==
    /\ name_pc = "input"
    /\ trait' = generate_trait_name(cpu_model)
    /\ name_pc' = "derived"
    /\ UNCHANGED <<cpu_model, trait2, vendor, traitVars, filterVars, cacheVars,
                   runVars>>

\* generate_trait_name applied to its own output
Rederive ==
    /\ name_pc = "derived"
    /\ trait2' = generate_trait_name(Str(trait))
    /\ name_pc' = "rederived"
    /\ UNCHANGED <<cpu_model, trait, vendor, traitVars, filterVars, cacheVars,
                   runVars>>

\* vendor = self.get_cpu_vendor(cpu_model)
GetVendor ==
    /\ name_pc # "off"
    /\ ~vendor.called
    \* what the call returned: a str or None
    /\ \E v \in {get_cpu_vendor(cpu_model)} :
         vendor' = [called |-> TRUE, none |-> v.none, s |-> v.s]
    /\ UNCHANGED <<name_pc, cpu_model, trait, trait2, traitVars, filterVars,
                   cacheVars, runVars>>

NameNext == Derive \/ Rederive \/ GetVendor

-----------------------------------------------------------------------------
(* filter_machines *)

\* A tag of a machine's "tag_names": a bare string, or a record that may
\* carry a "name".
StrTag(n) == [is_dict |-> FALSE, has_name |-> TRUE, name |-> n]

DictTag(n) == [is_dict |-> TRUE, has_name |-> TRUE, name |-> n]

NamelessDictTag == [is_dict |-> TRUE, has_name |-> FALSE, name |-> ""]

\* A machine record: "zone" may be missing, "status_name", "tag_names".
MachineRecord(z, st, tg) == [zone |-> z, status_name |-> st, tag_names |-> tg]

NoZone == [present |-> FALSE, name |-> ""]

ZoneRecord(n) == [present |-> TRUE, name |-> n]

\* machine.get("zone", {}).get("name"): None when there is no zone record
machine_zone_name(machine) ==
    IF machine.zone.present THEN [none |-> FALSE, s |-> machine.zone.name]
    ELSE [none |-> TRUE, s |-> ""]   \* None

\* Python truth of an Optional[str]
Truthy(z) == ~z.none /\ z.s # ""

\* a zone test that lets machines without a zone record through
ZoneExcludes_MissingPasses(machine, z) ==
    Truthy(z) /\ machine.zone.present /\ machine.zone.name # z.s

\* a zone test applied even when no zone is given
ZoneExcludes_Always(machine, z) == machine_zone_name(machine) # z

\* `zone and machine.get("zone", {}).get("name") != zone`
ZoneExcludes(machine, z) == Truthy(z) /\ machine_zone_name(machine) # z

\* `deployed_only and machine.get("status_name") != "Deployed"`
StatusExcludes(machine, d) == d /\ machine.status_name # "Deployed"

\* tag.get("name", "")
tag_get_name(tag) == IF tag.has_name THEN tag.name ELSE ""

\* Lines 665-668 raise when the list mixes the two representations: with a
\* record first, tag.get is called on a str (AttributeError); with a string
\* first, set() is given a dict (TypeError: unhashable).
TagsRaise(machine_tags) ==
    \E i \in DOMAIN machine_tags : machine_tags[i].is_dict # machine_tags[1].is_dict

\* machine_tags_set, for a list that does not raise
machine_tags_set(machine_tags) ==
    { IF machine_tags[1].is_dict THEN tag_get_name(machine_tags[i])
                                 ELSE machine_tags[i].name : i \in DOMAIN machine_tags }

\* `not tags_set.intersection(machine_tags_set)`
TagsExclude(machine_tags, tags_set) ==
    tags_set \cap machine_tags_set(machine_tags) = {}

\* "True" | "False" | "raise"
should_include_machine(machine, z, d, tags_set) ==
    IF ZoneExcludes(machine, z) THEN "False"
    ELSE IF StatusExcludes(machine, d) THEN "False"
    ELSE IF tags_set # {}
      THEN IF TagsRaise(machine.tag_names) THEN "raise"
           ELSE IF TagsExclude(machine.tag_names, tags_set) THEN "False"
           ELSE "True"
    ELSE "True"

\* The list comprehension: an exception in the predicate ends the call.
filter_machines(ms, z, d, tg) ==
    LET tags_set == Range(tg)
        verdict(i) == should_include_machine(ms[i], z, d, tags_set)
    IN  IF ms = <<>> THEN [raised |-> FALSE, list |-> <<>>]
        ELSE IF \E i \in DOMAIN ms : verdict(i) = "raise"
          THEN [raised |-> TRUE, list |-> <<>>]
          ELSE [raised |-> FALSE,
                list |-> SelectSeq(ms, LAMBDA m :
                           should_include_machine(m, z, d, tags_set) = "True")]

\* The inputs of the model.  The size of a machine list is its number of
\* machines plus its number of tags; lists up to size MaxInventory are used.
RECURSIVE TagListsOfLength(_)
TagListsOfLength(n) ==
    IF n = 0 THEN { <<>> }
    ELSE { Append(l, e) :
             l \in TagListsOfLength(n - 1),
             e \in { StrTag("a"), StrTag("b"), DictTag("a"), DictTag("b"),
                     NamelessDictTag } }

MachinesOfSize(k) ==
    { MachineRecord(z, st, tg) :
        z \in { NoZone, ZoneRecord("z1") }, st \in { "Deployed", "Ready" },
        tg \in TagListsOfLength(k - 1) }

RECURSIVE MachineListsOfSize(_)
MachineListsOfSize(k) ==
    IF k = 0 THEN { <<>> }
    ELSE UNION { { <<m>> \o rest : m \in MachinesOfSize(j),
                                   rest \in MachineListsOfSize(k - j) } : j \in 1..k }

\* None, for a str kept as a TLA+ string
NoneStr == [none |-> TRUE, s |-> ""]

FilterInit ==
    /\ filter_pc = "input"
    /\ machines \in UNION { MachineListsOfSize(k) : k \in 0..MaxInventory }
    /\ zone \in { NoneStr, [none |-> FALSE, s |-> ""],
                  [none |-> FALSE, s |-> "z1"], [none |-> FALSE, s |-> "z3"] }
    /\ deployed_only \in BOOLEAN
    /\ tags \in { <<>>, <<"a">>, <<"a", "b">> }
    /\ filtered = [raised |-> FALSE, list |-> <<>>]

\* filtered_machines = self.filter_machines(machines, zone, deployed_only, tags)
Filter ==
    /\ filter_pc = "input"
    /\ filtered' = filter_machines(machines, zone, deployed_only, tags)
    /\ filter_pc' = "returned"
    /\ UNCHANGED <<machines, zone, deployed_only, tags, traitVars, nameVars,
                   cacheVars, runVars>>

FilterNext == Filter

-----------------------------------------------------------------------------
(* Token, catalog and endpoint discovery, and their caches *)

\* Optional values: a token, a catalog.
NoToken == [none |-> TRUE, id |-> 0]

Token(n) == [none |-> FALSE, id |-> n]

EmptyBody == [broken |-> FALSE, services |-> <<>>]

NoCatalog == [none |-> TRUE, serial |-> 0, body |-> EmptyBody]

Catalog(n, body) == [none |-> FALSE, serial |-> n, body |-> body]

\* Python truth of an Optional[str] kept as characters
NonEmpty(u) == ~u.none /\ u.s # <<>>

\* self._service_endpoints = {}
NoEndpoints == [key \in {} |-> <<>>]

\* str.rstrip(ch)
rstrip(u, ch) ==
    LET keep == { i \in DOMAIN u : u[i] # ch } IN
    IF keep = {} THEN <<>>
    ELSE SubSeq(u, 1, CHOOSE i \in keep : \A j \in keep : i >= j)

\* Catalog bodies of the model.  A service is a name and a list of endpoints;
\* an endpoint is an interface and a url that may be missing.
CatalogBodies ==
    LET Endpoint(interface, url) == [interface |-> interface, url |-> url]
        Service(name, endpoints) == [name |-> name, endpoints |-> endpoints]
        PlacementUrl == Str(<<"h","/","p","/">>)
        NovaUrl == Str(<<"h","/","n">>)
    IN
    { EmptyBody,
      \* "catalog" holds entries that are not service records
      [broken |-> TRUE, services |-> <<>>],
      [broken |-> FALSE, services |->
         << Service("placement", << Endpoint("public", PlacementUrl) >>) >>],
      [broken |-> FALSE, services |->
         << Service("placement", << Endpoint("internal", PlacementUrl),
                                    Endpoint("public", PlacementUrl) >>),
            Service("nova", << Endpoint("public", NovaUrl) >>) >>],
      [broken |-> FALSE, services |->
         << Service("placement", << Endpoint("internal", PlacementUrl) >>),
            Service("nova", << Endpoint("public", NovaUrl) >>) >>],
      [broken |-> FALSE, services |->
         << Service("placement", << Endpoint("public", None) >>),
            Service("placement", << Endpoint("public", PlacementUrl) >>),
            Service("nova", << Endpoint("public", Str(<<"/">>)) >>) >>] }

\* What the identity service answers to POST /auth/tokens; status 0 stands
\* for an exception raised by session.post.
TokenResponses ==
    { [status_code |-> 0, token_header |-> FALSE],
      [status_code |-> 201, token_header |-> TRUE],
      [status_code |-> 201, token_header |-> FALSE],
      [status_code |-> 401, token_header |-> FALSE] }

\* What it answers to GET /auth/catalog: body "catalog" is a dict with the
\* key "catalog", "invalid" is JSON of another shape
\* or fails to parse.
CatalogResponses ==
    { [status_code |-> 0, body |-> "none"],
      [status_code |-> 200, body |-> "catalog"],
      [status_code |-> 200, body |-> "invalid"],
      [status_code |-> 401, body |-> "none"],
      [status_code |-> 500, body |-> "none"] }

\* The object's cache fields and the requests sent so far, as one value.
Self ==
    [auth_token |-> auth_token, placement_endpoint |-> placement_endpoint,
     session |-> session, service_catalog |-> service_catalog,
     service_endpoints |-> service_endpoints, http_log |-> http_log,
     sessions |-> sessions]

\* What a method call leaves behind: the object after it, and either the
\* value returned or the fact that it raised.
Return(c, v) == [self |-> c, raised |-> FALSE, value |-> v]

Raise(c, v) == [self |-> c, raised |-> TRUE, value |-> v]

\* Lines 67-95
get_session(c) ==
    IF c.session = 0
      THEN [c EXCEPT !.session = c.sessions.created + 1,
                     !.sessions.created = c.sessions.created + 1]
      ELSE c

\* session.post / session.get: the request is sent on the object's session.
Send(c, request, status_code) ==
    LET on(c2) ==
          [c2 EXCEPT !.http_log = Append(@, [request |-> request,
                                             session |-> c2.session,
                                             status_code |-> status_code])]
    IN  on(get_session(c))

\* `if self._auth_token:` without the test
TokenIsCached_Never(c) == FALSE

\* `if self._auth_token:`
TokenIsCached(c) == ~c.auth_token.none

\* Lines 363-437.  A token the service grants is a new one.
get_openstack_token(c, tr) ==
    IF TokenIsCached(c) THEN Return(c, c.auth_token)
    ELSE IF ~(environ.OS_AUTH_URL /\ environ.credentials) THEN Raise(c, NoToken)
    ELSE LET answered(sent) ==
               IF tr.status_code = 201 /\ tr.token_header
                 THEN Return([sent EXCEPT !.auth_token = Token(Len(sent.http_log))],
                             Token(Len(sent.http_log)))
                 ELSE Return(sent, NoToken)
         IN  answered(Send(c, "POST /auth/tokens", tr.status_code))

\* Lines 149-232.  The token is asked for outside the try block.
get_service_catalog(c, tr, cr) ==
    IF ~c.service_catalog.none THEN Return(c, c.service_catalog)
    ELSE IF ~environ.OS_AUTH_URL THEN Return(c, NoCatalog)
    ELSE LET answered(sent) ==
               IF cr.status_code = 200 /\ cr.body = "catalog"
                 THEN Return([sent EXCEPT !.service_catalog =
                                Catalog(Len(sent.http_log), cloud_catalog)],
                             Catalog(Len(sent.http_log), cloud_catalog))
               ELSE IF cr.status_code = 401
                 THEN Return([sent EXCEPT !.auth_token = NoToken], NoCatalog)
               ELSE Return(sent, NoCatalog)
             with_token(t) ==
               IF t.raised THEN Raise(t.self, NoCatalog)
               ELSE IF t.value.none THEN Return(t.self, NoCatalog)
               ELSE answered(Send(t.self, "GET /auth/catalog", cr.status_code))
         IN  with_token(get_openstack_token(c, tr))

\* Lines 256-276: the first endpoint of the interface that has a url, in the
\* services of that name, in order; None when there is none or when parsing
\* the catalog raises.
FirstUrl(body, service_name, interface) ==
    LET hits == { <<i, j>> \in (DOMAIN body.services) \X (1..2) :
                    /\ body.services[i].name = service_name
                    /\ j \in DOMAIN body.services[i].endpoints
                    /\ body.services[i].endpoints[j].interface = interface
                    /\ NonEmpty(body.services[i].endpoints[j].url) }
    IN  IF body.broken \/ hits = {} THEN None
        ELSE LET h == CHOOSE h \in hits :
                        \A g \in hits : h[1] < g[1] \/ (h[1] = g[1] /\ h[2] <= g[2])
             IN  body.services[h[1]].endpoints[h[2]].url

\* a lookup that remembers its failure under the key
CacheLookup_AlsoFailures(c, key, url) ==
    [c EXCEPT !.service_endpoints =
       [k \in DOMAIN @ \cup {key} |->
          IF k = key THEN (IF url.none THEN <<>> ELSE rstrip(url.s, "/")) ELSE @[k]]]

\* Lines 270-272: only a url that was found is cached.
CacheLookup(c, key, url) ==
    IF url.none THEN c
    ELSE [c EXCEPT !.service_endpoints =
            [k \in DOMAIN @ \cup {key} |-> IF k = key THEN rstrip(url.s, "/") ELSE @[k]]]

\* Lines 234-283.  The catalog is asked for outside the try block.
get_service_endpoint(c, service_name, interface, tr, cr) ==
    LET cache_key == <<service_name, interface>>
        found(c2, url) ==
          Return(CacheLookup(c2, cache_key, url),
                 IF url.none THEN None ELSE Str(rstrip(url.s, "/")))
        with_catalog(g) ==
          IF g.raised THEN Raise(g.self, None)
          ELSE IF g.value.none THEN Return(g.self, None)
          ELSE found(g.self, FirstUrl(g.value.body, service_name, interface))
    IN  IF cache_key \in DOMAIN c.service_endpoints
          THEN Return(c, Str(c.service_endpoints[cache_key]))
          ELSE with_catalog(get_service_catalog(c, tr, cr))

\* Lines 439-452
get_placement_endpoint(c, tr, cr) ==
    IF NonEmpty(c.placement_endpoint) THEN Return(c, c.placement_endpoint)
    ELSE LET with_endpoint(e) ==
               IF e.raised THEN e
               ELSE IF NonEmpty(e.value)
                 THEN Return([e.self EXCEPT !.placement_endpoint = e.value], e.value)
                 ELSE Return(e.self, None)
         IN  with_endpoint(get_service_endpoint(c, "placement", "public", tr, cr))

\* a reset that leaves the endpoint cache as it is
clear_cache_KeepEndpoints(c) ==
    [c EXCEPT !.auth_token = NoToken,
              !.placement_endpoint = None,
              !.service_catalog = NoCatalog,
              !.sessions.closed = IF c.session # 0 THEN @ \cup {c.session} ELSE @,
              !.session = 0]

\* Lines 97-105
clear_cache(c) ==
    [c EXCEPT !.auth_token = NoToken,
              !.placement_endpoint = None,
              !.service_catalog = NoCatalog,
              !.service_endpoints = NoEndpoints,
              !.sessions.closed = IF c.session # 0 THEN @ \cup {c.session} ELSE @,
              !.session = 0]

\* a check that lets the exception of _get_openstack_token through
check_openstack_connectivity_NoCatch(c, tr, cr) ==
    LET with_endpoint(e) ==
          IF e.raised \/ ~NonEmpty(e.value) THEN Return(e.self, FALSE)
          ELSE Return(e.self, TRUE)
        with_token(t) ==
          IF t.raised THEN Raise(t.self, FALSE)
          ELSE IF t.value.none THEN Return(t.self, FALSE)
          ELSE with_endpoint(get_placement_endpoint(t.self, tr, cr))
    IN  with_token(get_openstack_token(c, tr))

\* Lines 508-526: True or False; an exception of either step gives False.
check_openstack_connectivity(c, tr, cr) ==
    LET with_endpoint(e) ==
          IF e.raised \/ ~NonEmpty(e.value) THEN Return(e.self, FALSE)
          ELSE Return(e.self, TRUE)
        with_token(t) ==
          IF t.raised \/ t.value.none THEN Return(t.self, FALSE)
          ELSE with_endpoint(get_placement_endpoint(t.self, tr, cr))
    IN  with_token(get_openstack_token(c, tr))

\* What has been obtained since the last _clear_cache: the last token,
\* catalog, endpoints and placement endpoint that the caches were given;
\* `unauthorized` tells that a catalog request was answered 401 since the
\* token was obtained; `requests` is the number of requests sent before the
\* reset; `calls` tells whether a method was called since the reset;
\* `not_found` holds the keys whose lookup in the catalog found nothing.
NothingObtained(n) ==
    [token |-> NoToken, catalog |-> NoCatalog, endpoints |-> NoEndpoints,
     placement |-> None, unauthorized |-> FALSE, requests |-> n, calls |-> FALSE,
     not_found |-> {}]

Obtain(c, c2) ==
    [token |-> IF c2.auth_token.none THEN obtained.token ELSE c2.auth_token,
     catalog |-> IF c2.service_catalog.none THEN obtained.catalog
                 ELSE c2.service_catalog,
     endpoints |-> [k \in DOMAIN obtained.endpoints \cup DOMAIN c2.service_endpoints |->
                      IF k \in DOMAIN c2.service_endpoints
                        THEN c2.service_endpoints[k] ELSE obtained.endpoints[k]],
     placement |-> IF c2.placement_endpoint.none THEN obtained.placement
                   ELSE c2.placement_endpoint,
     unauthorized |-> IF c2.auth_token # c.auth_token /\ ~c2.auth_token.none
                        THEN FALSE
                        ELSE \/ obtained.unauthorized
                             \/ /\ Len(c2.http_log) > Len(c.http_log)
                                /\ c2.http_log[Len(c2.http_log)].request
                                     = "GET /auth/catalog"
                                /\ c2.http_log[Len(c2.http_log)].status_code = 401,
     requests |-> obtained.requests,
     calls |-> TRUE,
     not_found |-> obtained.not_found]

\* The record of a call: the method, its key, what had been obtained for
\* that key since the last reset, what the call returned and the number of
\* requests it sent.
CallRecord(op, key, known, r) ==
    [op |-> op, key |-> key, known |-> known, raised |-> r.raised,
     value |-> r.value, requests |-> Len(r.self.http_log) - Len(http_log),
     unauthorized |-> obtained.unauthorized, first |-> ~obtained.calls]

NoCall == [op |-> "none", key |-> <<>>, known |-> NoToken, raised |-> FALSE,
           value |-> NoToken, requests |-> 0, unauthorized |-> FALSE,
           first |-> FALSE]

\* The object after a call, and the bound on the requests of a behaviour.
Becomes(c) ==
    /\ Len(c.http_log) <= MaxRequests
    /\ auth_token' = c.auth_token
    /\ placement_endpoint' = c.placement_endpoint
    /\ session' = c.session
    /\ service_catalog' = c.service_catalog
    /\ service_endpoints' = c.service_endpoints
    /\ http_log' = c.http_log
    /\ sessions' = c.sessions

GetToken ==
    /\ last_call.op # "off"
    /\ \E tr \in TokenResponses :
         \E r \in {get_openstack_token(Self, tr)} :
           /\ Becomes(r.self)
           /\ obtained' = Obtain(Self, r.self)
           /\ last_call' = CallRecord("token", <<>>, obtained.token, r)
    /\ UNCHANGED <<environ, cloud_catalog, traitVars, nameVars, filterVars,
                   runVars>>

GetCatalog ==
    /\ last_call.op # "off"
    /\ \E tr \in TokenResponses, cr \in CatalogResponses :
         \E r \in {get_service_catalog(Self, tr, cr)} :
           /\ Becomes(r.self)
           /\ obtained' = Obtain(Self, r.self)
           /\ last_call' = CallRecord("catalog", <<>>, obtained.catalog, r)
    /\ UNCHANGED <<environ, cloud_catalog, traitVars, nameVars, filterVars,
                   runVars>>

GetEndpoint ==
    /\ last_call.op # "off"
    \* every caller asks for the default interface
    /\ \E name \in {"placement", "nova"}, interface \in {"public"},
          tr \in TokenResponses, cr \in CatalogResponses :
         \E r \in {get_service_endpoint(Self, name, interface, tr, cr)},
            key \in {<<name, interface>>} :
             /\ Becomes(r.self)
             /\ obtained' =
                  [Obtain(Self, r.self) EXCEPT !.not_found =
                     IF ~r.raised /\ r.value.none /\ ~r.self.service_catalog.none
                       THEN @ \cup {key} ELSE @]
             /\ last_call' = CallRecord("endpoint", key,
                               IF key \in DOMAIN obtained.endpoints
                                 THEN Str(obtained.endpoints[key]) ELSE None, r)
    /\ UNCHANGED <<environ, cloud_catalog, traitVars, nameVars, filterVars,
                   runVars>>

GetPlacementEndpoint ==
    /\ last_call.op # "off"
    /\ \E tr \in TokenResponses, cr \in CatalogResponses :
         \E r \in {get_placement_endpoint(Self, tr, cr)} :
           /\ Becomes(r.self)
           /\ obtained' = Obtain(Self, r.self)
           /\ last_call' = CallRecord("placement", <<>>, obtained.placement, r)
    /\ UNCHANGED <<environ, cloud_catalog, traitVars, nameVars, filterVars,
                   runVars>>

ClearCache ==
    /\ last_call.op # "off"
    /\ \E c \in {clear_cache(Self)} :
         /\ Becomes(c)
         /\ obtained' = NothingObtained(Len(http_log))
         /\ last_call' = [NoCall EXCEPT !.op = "clear", !.key = <<session>>]
    /\ UNCHANGED <<environ, cloud_catalog, traitVars, nameVars, filterVars,
                   runVars>>

Environments ==
    { [OS_AUTH_URL |-> TRUE, credentials |-> TRUE],
      [OS_AUTH_URL |-> TRUE, credentials |-> FALSE],
      [OS_AUTH_URL |-> FALSE, credentials |-> TRUE] }

-----------------------------------------------------------------------------
(* main and run *)

\* str.lower()
lower(s) ==
    [i \in DOMAIN s |->
       IF \E k \in DOMAIN UpperLetters : UpperLetters[k] = s[i]
         THEN LowerLetters[CHOOSE k \in DOMAIN UpperLetters : UpperLetters[k] = s[i]]
         ELSE s[i]]

RECURSIVE sorted(_)
\* sorted(S) for a set of strings made of the characters of trait names
sorted(S) ==
    LET Alphabet == <<"0","1","2","3","4","5","6","7","8","9">>
                      \o UpperLetters \o <<"_">>
        Ord(c) == CHOOSE i \in DOMAIN Alphabet : Alphabet[i] = c
        \* a < b for strings
        Less(a, b) ==
          \E i \in 1..(Len(a) + 1) :
            /\ i <= Len(b)
            /\ SubSeq(a, 1, i - 1) = SubSeq(b, 1, i - 1)
            /\ (i > Len(a) \/ Ord(a[i]) < Ord(b[i]))
        least(m) == <<m>> \o sorted(S \ {m})
    IN  IF S = {} THEN <<>>
        ELSE least(CHOOSE x \in S : \A y \in S \ {x} : Less(x, y))

RECURSIVE Picked(_, _, _)
\* The entries of a list at the positions P from position i on, in the
\* order of the list.
Picked(list, P, i) ==
    IF i > Len(list) THEN <<>>
    ELSE (IF i \in P THEN <<list[i]>> ELSE <<>>) \o Picked(list, P, i + 1)

\* What MAAS answers to GET /api/2.0/machines/: a failure (RequestException,
\* an error status, a body that is not JSON), or a list of machines: records
\* as filter_machines reads them, with a hostname and the CPU model of
\* "hardware_info".
MaasResponses ==
    LET Machine(hostname, z, status, model) ==
          [zone |-> ZoneRecord(z), status_name |-> status, tag_names |-> <<>>,
           hostname |-> hostname, cpu_model |-> model]
        pool == << Machine(<<"n","1">>, "z1", "Deployed", <<"I","n","t","e","l"," ","X">>),
                   Machine(<<"N","2">>, "z2", "Deployed", <<"A","M","D"," ","Y">>),
                   Machine(<<"n","3">>, "z1", "Ready", <<"I","n","t","e","l"," ","X">>),
                   Machine(<<"n","4">>, "z1", "Deployed", <<"x","7">>) >>
    IN  { [ok |-> FALSE, data |-> <<>>] }
        \cup { [ok |-> TRUE, data |-> Picked(pool, P, 1)] :
                 P \in { Q \in SUBSET DOMAIN pool : Cardinality(Q) <= MaxItems } }

\* Something the process did: a phase or an item of a loop, how it ended,
\* and for a trait write whether as many PUTs as the loop of
\* _set_resource_provider_traits allows were answered 409.
ItemEvent(what, item, outcome, conflicts) ==
    [what |-> what, item |-> item, outcome |-> outcome,
     still_conflicts |-> conflicts >= MAX_RETRIES]

Event(what, item, outcome) == ItemEvent(what, item, outcome, 0)

NoCounts ==
    [created |-> 0, added |-> 0, already_existed |-> 0, not_found |-> 0,
     errors |-> 0, cleared |-> 0, deleted |-> 0, delete_errors |-> 0]

\* sys.exit(status), or the end of main (status 0), or an exception that
\* nothing catches (status 1)
Exit(status) == run_pc' = "exited" /\ exit_status' = status

Goto(p) == run_pc' = p /\ exit_status' = exit_status

\* Responses that a call will not ask for are not enumerated.
TokenAnswers(c) ==
    IF c.auth_token.none THEN TokenResponses
    ELSE { [status_code |-> 0, token_header |-> FALSE] }

CatalogAnswers(c) ==
    IF c.service_catalog.none THEN CatalogResponses
    ELSE { [status_code |-> 0, body |-> "none"] }

\* Lines 819-846: True when sys.exit(1) is not called
check_openstack_environment == environ.OS_AUTH_URL /\ environ.credentials

\* _INTEL_AMD_PATTERN.search(cpu_model)
HasVendor(machine) == ~INTEL_AMD_PATTERN_search(machine.cpu_model).none

\* a validation that lets the clear flag through with the others
RejectedFlags_AssignAlone(a) ==
    a.assign_traits_to_hypervisors /\ ~a.create_openstack_traits

\* Lines 1406-1430: the two validations of main that end in sys.exit(1)
RejectedFlags(a) ==
    \/ a.assign_traits_to_hypervisors /\ ~a.create_openstack_traits
    \/ /\ a.clear_openstack_traits
       /\ (a.create_openstack_traits \/ a.assign_traits_to_hypervisors)

\* Lines 1406-1447 and 1316-1325: the flags are validated, the analyzer is
\* created, and run starts with the clear mode or with the inventory.
main ==
    /\ run_pc = "main"
    /\ IF RejectedFlags(args)
         THEN Exit(1) /\ events' = events
       ELSE /\ events' = Append(events, Event("MAASCPUAnalyzer", <<>>, "created"))
            /\ Goto(IF args.clear_openstack_traits
                      THEN "clear_openstack_traits" ELSE "fetch_maas_data")
    /\ UNCHANGED <<args, maas_environ, todo, counts, hypervisor_map, custom_traits,
                   traitVars, nameVars, filterVars, cacheVars>>

\* an order of the phases with the assignment ahead of the creation
Sequel_AssignFirst(phase) ==
    CASE phase = "fetch_maas_data" -> "print_machine_table"
      [] phase = "print_machine_table" -> "print_cpu_distribution"
      [] OTHER -> "assign_cpu_traits_to_hypervisors"

\* Lines 1325-1332: the call that follows each call of run
Sequel(phase) ==
    CASE phase = "fetch_maas_data" -> "print_machine_table"
      [] phase = "print_machine_table" -> "print_cpu_distribution"
      [] phase = "print_cpu_distribution" -> "create_openstack_traits"
      [] OTHER -> "assign_cpu_traits_to_hypervisors"

\* a key check that only rejects keys with too few parts
MalformedKey_TooShort(maas_api_key) ==
    Len(SelectSeq(maas_api_key, LAMBDA c : c = ":")) + 1 < 3

\* `len(maas_api_key.split(":")) != 3`
MalformedKey(maas_api_key) ==
    Len(SelectSeq(maas_api_key, LAMBDA c : c = ":")) + 1 # 3

\* Lines 573-636
fetch_maas_data ==
    /\ run_pc = "fetch_maas_data"
    /\ IF ~NonEmpty(maas_environ.MAAS_URL) \/ ~NonEmpty(maas_environ.MAAS_API_KEY)
         THEN Exit(1) /\ UNCHANGED <<events, machines, session, sessions>>
       ELSE IF MalformedKey(maas_environ.MAAS_API_KEY.s)
         THEN Exit(1) /\ UNCHANGED <<events, machines, session, sessions>>
       ELSE \E response \in MaasResponses :
              /\ session' = get_session(Self).session
              /\ sessions' = get_session(Self).sessions
              /\ events' = Append(events, Event("GET /api/2.0/machines/", <<>>,
                                                IF response.ok THEN "ok" ELSE "failed"))
              /\ IF response.ok
                   THEN machines' = response.data /\ Goto(Sequel("fetch_maas_data"))
                   ELSE machines' = machines /\ Exit(1)
    /\ UNCHANGED <<args, maas_environ, todo, counts, hypervisor_map, custom_traits,
                   traitVars, nameVars, filter_pc, zone, deployed_only, tags, filtered,
                   auth_token, placement_endpoint, service_catalog, service_endpoints,
                   environ, cloud_catalog, http_log, obtained, last_call>>

\* Lines 730-783: an exception of filter_machines is not caught.
print_machine_table ==
    /\ run_pc = "print_machine_table"
    /\ IF filter_machines(machines, zone, deployed_only, tags).raised
         THEN Exit(1) /\ events' = events
         ELSE /\ events' = Append(events, Event("print_machine_table", <<>>, "printed"))
              /\ Goto(Sequel("print_machine_table"))
    /\ UNCHANGED <<args, maas_environ, todo, counts, hypervisor_map, custom_traits,
                   traitVars, nameVars, filterVars, cacheVars>>

\* Lines 785-817
print_cpu_distribution ==
    /\ run_pc = "print_cpu_distribution"
    /\ IF filter_machines(machines, zone, deployed_only, tags).raised
         THEN Exit(1) /\ events' = events
         ELSE /\ events' = Append(events, Event("print_cpu_distribution", <<>>, "printed"))
              /\ Goto(Sequel("print_cpu_distribution"))
    /\ UNCHANGED <<args, maas_environ, todo, counts, hypervisor_map, custom_traits,
                   traitVars, nameVars, filterVars, cacheVars>>

\* Lines 1331-1334: after create_openstack_traits has returned
AfterCreate ==
    IF args.assign_traits_to_hypervisors
      THEN Goto(Sequel("create_openstack_traits"))
      ELSE Exit(0)

\* Lines 864-872
TraitNamesOf(ms) ==
    { generate_trait_name(Str(ms[i].cpu_model)) :
        i \in { j \in DOMAIN ms : HasVendor(ms[j]) } }

\* The cache fields after a call; the other discovery variables stay.
CacheBecomes(c) ==
    /\ Becomes(c)
    /\ UNCHANGED <<environ, cloud_catalog, obtained, last_call>>

\* Lines 848-897: up to the loop over the trait names
create_openstack_traits ==
    /\ run_pc = "create_openstack_traits"
    /\ \E fm \in {filter_machines(machines, zone, deployed_only, tags)} :
       \E names \in {TraitNamesOf(fm.list)} :
       IF ~args.create_openstack_traits
         THEN AfterCreate /\ UNCHANGED cacheVars /\ UNCHANGED <<events, todo, counts>>
       ELSE IF fm.raised
         THEN Exit(1) /\ UNCHANGED cacheVars /\ UNCHANGED <<events, todo, counts>>
       ELSE IF names = {}
         THEN /\ AfterCreate /\ UNCHANGED cacheVars /\ UNCHANGED <<todo, counts>>
              /\ events' = Append(events, Event("create_openstack_traits", <<>>, "no models"))
       ELSE IF ~check_openstack_environment
         THEN /\ Exit(1) /\ UNCHANGED cacheVars /\ UNCHANGED <<todo, counts>>
              /\ events' = Append(events, Event("create_openstack_traits", <<>>, "no environment"))
       ELSE \E tr \in TokenAnswers(Self), cr \in CatalogAnswers(Self) :
              \E r \in {check_openstack_connectivity(Self, tr, cr)} :
                /\ CacheBecomes(r.self)
                /\ IF r.value
                     THEN /\ todo' = sorted(names)
                          /\ counts' = NoCounts
                          /\ events' = Append(events,
                                Event("create_openstack_traits", <<>>, "connected"))
                          /\ Goto("create_trait")
                     ELSE /\ UNCHANGED <<todo, counts>>
                          /\ events' = Append(events,
                                Event("create_openstack_traits", <<>>, "not connected"))
                          /\ Exit(1)
    /\ UNCHANGED <<args, maas_environ, hypervisor_map, custom_traits,
                   traitVars, nameVars, filterVars>>

\* a request that is sent without an endpoint
make_placement_api_request_NoEndpointCheck(c, tr, cr) ==
    LET unsent(c2) ==
          [self |-> c2, sent |-> FALSE, raised |-> "ValueError",
           headers |-> [X_Auth_Token |-> NoToken, OpenStack_API_Version |-> ""]]
        with_token(t) ==
          IF t.raised \/ t.value.none THEN unsent(t.self)
          ELSE [self |-> get_session(t.self), sent |-> TRUE, raised |-> "none",
                headers |-> [X_Auth_Token |-> t.value,
                             OpenStack_API_Version |-> "placement 1.6"]]
        with_endpoint(e) ==
          IF e.raised THEN unsent(e.self)
          ELSE with_token(get_openstack_token(e.self, tr))
    IN  with_endpoint(get_placement_endpoint(c, tr, cr))

\* Lines 107-128: the request is prepared when an endpoint and a token are at
\* hand, with the token and the version of the placement API in its
\* headers; otherwise ValueError is raised: by lines 114 and 121, or by
\* _get_openstack_token (line 377), whose exception nothing catches on the
\* way here.
make_placement_api_request(c, tr, cr) ==
    LET unsent(c2) ==
          [self |-> c2, sent |-> FALSE, raised |-> "ValueError",
           headers |-> [X_Auth_Token |-> NoToken, OpenStack_API_Version |-> ""]]
        with_token(t) ==
          IF t.raised \/ t.value.none THEN unsent(t.self)
          ELSE [self |-> get_session(t.self), sent |-> TRUE, raised |-> "none",
                headers |-> [X_Auth_Token |-> t.value,
                             OpenStack_API_Version |-> "placement 1.6"]]
        with_endpoint(e) ==
          IF e.raised \/ ~NonEmpty(e.value) THEN unsent(e.self)
          ELSE with_token(get_openstack_token(e.self, tr))
    IN  with_endpoint(get_placement_endpoint(c, tr, cr))

\* What placement answers to PUT /traits/{name}: a status code and the text
\* of the response; `reports_existing` tells whether the response says that
\* the trait exists already.  Status 0 is an exception of session.request.
\* The text of the second 500 is an error that names its request,
\* req-409.
CreateTraitResponses ==
    { [status_code |-> 0, text |-> <<>>, reports_existing |-> FALSE],
      [status_code |-> 200, text |-> <<>>, reports_existing |-> FALSE],
      [status_code |-> 201, text |-> <<>>, reports_existing |-> FALSE],
      [status_code |-> 204, text |-> <<>>, reports_existing |-> TRUE],
      [status_code |-> 409,
       text |-> <<"T","r","a","i","t"," ","a","l","r","e","a","d","y"," ",
                  "e","x","i","s","t","s">>,
       reports_existing |-> TRUE],
      [status_code |-> 500, text |-> <<"E","r","r","o","r">>,
       reports_existing |-> FALSE],
      [status_code |-> 500, text |-> <<"r","e","q","-","4","0","9">>,
       reports_existing |-> FALSE] }

\* Lines 528-565: (success, status), the status being "created",
\* "already_exists" or "error"
create_trait_status(sent, response) ==
    LET error_msg == lower(response.text)
        keywords == { <<"a","l","r","e","a","d","y"," ","e","x","i","s","t","s">>,
                      <<"c","o","n","f","l","i","c","t">>,
                      <<"d","u","p","l","i","c","a","t","e">>,
                      <<"4","0","9">> }
    IN  IF ~sent \/ response.status_code = 0
          THEN [success |-> FALSE, status |-> "error"]
        ELSE IF response.status_code = 201
          THEN [success |-> TRUE, status |-> "created"]
        ELSE IF response.status_code = 204
          THEN [success |-> TRUE, status |-> "already_exists"]
        ELSE IF response.status_code = 200
          THEN [success |-> TRUE, status |-> "created"]
        ELSE IF \E keyword \in keywords : Contains(error_msg, keyword)
          THEN [success |-> TRUE, status |-> "already_exists"]
        ELSE [success |-> FALSE, status |-> "error"]

\* a loop that stops at the first item that fails
LoopRest_StopOnError(outcome) == IF outcome = "error" THEN <<>> ELSE Tail(todo)

\* The `for` loops of lines 899-920, 1007-1136, 1205-1256 and 1267-1286:
\* their bodies catch every exception, so that the loop goes on with the
\* next item whatever happened to this one.
LoopRest(outcome) == Tail(todo)

\* Lines 899-937: one iteration of the loop; the summary follows the last.
create_trait ==
    /\ run_pc = "create_trait"
    /\ todo # <<>>
    /\ \E tr \in TokenAnswers(Self), cr \in CatalogAnswers(Self),
          response \in CreateTraitResponses :
         \E req \in {make_placement_api_request(Self, tr, cr)} :
         \E status \in {create_trait_status(req.sent, response).status} :
         \E rest \in {LoopRest(status)},
            item \in {Event("create_trait", Head(todo), status)} :
             /\ CacheBecomes(req.self)
             /\ counts' =
                  IF status = "created" THEN [counts EXCEPT !.created = @ + 1]
                  ELSE IF status = "already_exists"
                    THEN [counts EXCEPT !.already_existed = @ + 1]
                  ELSE [counts EXCEPT !.errors = @ + 1]
             /\ todo' = rest
             /\ IF rest = <<>>
                  THEN /\ events' = events \o
                            << item, Event("create_openstack_traits", <<>>, "summary") >>
                       /\ AfterCreate
                  ELSE /\ events' = Append(events, item)
                       /\ Goto("create_trait")
    /\ UNCHANGED <<args, maas_environ, hypervisor_map, custom_traits,
                   traitVars, nameVars, filterVars>>

\* a loop over the machines of every status
DeployedMachines_AnyStatus(ms) == SelectSeq(ms, HasVendor)

\* Lines 957-963
DeployedMachines(ms) ==
    SelectSeq(ms, LAMBDA m : m.status_name = "Deployed" /\ HasVendor(m))

\* `a or b` for Optional[str]
Or(a, b) == IF NonEmpty(a) THEN a ELSE b

\* What the compute service answers to GET /os-hypervisors: a failure, or
\* hypervisor records, whose names may be missing.
NovaResponses ==
    LET pool == << [hypervisor_hostname |-> Str(<<"n","1">>), name |-> None],
                   [hypervisor_hostname |-> None, name |-> Str(<<"n","2">>)] >>
    IN  { [ok |-> FALSE, hypervisors |-> <<>>] }
        \cup { [ok |-> TRUE, hypervisors |-> Picked(pool, P, 1)] :
                 P \in SUBSET DOMAIN pool }

\* Lines 474-506: the endpoint is looked up outside the try block.
get_hypervisors(c, tr, cr, response) ==
    LET with_token(t) ==
          IF t.raised THEN Raise(t.self, <<>>)
          ELSE IF t.value.none THEN Return(t.self, <<>>)
          ELSE Return(get_session(t.self),
                      IF response.ok THEN response.hypervisors ELSE <<>>)
        with_endpoint(e) ==
          IF e.raised THEN Raise(e.self, <<>>)
          ELSE IF ~NonEmpty(e.value) THEN Return(e.self, <<>>)
          ELSE with_token(get_openstack_token(e.self, tr))
    IN  with_endpoint(get_service_endpoint(c, "nova", "public", tr, cr))

\* Lines 987-997: the hypervisors that have a hostname, with it.
HypervisorMap(hypervisors) ==
    LET map(named) ==
          [i \in DOMAIN named |->
             [hv_hostname |-> Or(named[i].hypervisor_hostname, named[i].name).s,
              hv |-> named[i]]]
    IN  map(SelectSeq(hypervisors,
                      LAMBDA hv : NonEmpty(Or(hv.hypervisor_hostname, hv.name))))

\* Lines 939-999: up to the loop over the deployed machines
assign_cpu_traits_to_hypervisors ==
    /\ run_pc = "assign_cpu_traits_to_hypervisors"
    /\ \E fm \in {filter_machines(machines, zone, deployed_only, tags)} :
       \E deployed_machines \in {DeployedMachines(fm.list)} :
       LET phase(outcome) == Event("assign_cpu_traits_to_hypervisors", <<>>, outcome)
       IN
       IF ~args.assign_traits_to_hypervisors
         THEN Exit(0) /\ UNCHANGED cacheVars /\ UNCHANGED <<events, todo, counts, hypervisor_map>>
       ELSE IF fm.raised
         THEN Exit(1) /\ UNCHANGED cacheVars /\ UNCHANGED <<events, todo, counts, hypervisor_map>>
       ELSE IF deployed_machines = <<>>
         THEN /\ Exit(0) /\ UNCHANGED cacheVars /\ UNCHANGED <<todo, counts, hypervisor_map>>
              /\ events' = Append(events, phase("no machines"))
       ELSE IF ~check_openstack_environment
         THEN /\ Exit(1) /\ UNCHANGED cacheVars /\ UNCHANGED <<todo, counts, hypervisor_map>>
              /\ events' = Append(events, phase("no environment"))
       ELSE \E tr \in TokenAnswers(Self), cr \in CatalogAnswers(Self),
               response \in NovaResponses :
              \E r \in {check_openstack_connectivity(Self, tr, cr)} :
              \E h \in {get_hypervisors(r.self, tr, cr, response)} :
                  IF ~r.value
                    THEN /\ CacheBecomes(r.self)
                         /\ UNCHANGED <<todo, counts, hypervisor_map>>
                         /\ events' = Append(events, phase("not connected"))
                         /\ Exit(0)
                  ELSE IF h.raised
                    THEN /\ CacheBecomes(h.self)
                         /\ UNCHANGED <<todo, counts, hypervisor_map>>
                         /\ events' = Append(events, phase("no hypervisors"))
                         /\ Exit(0)
                  ELSE /\ CacheBecomes(h.self)
                       /\ hypervisor_map' = HypervisorMap(h.value)
                       /\ todo' = deployed_machines
                       /\ counts' = NoCounts
                       /\ events' = Append(events, phase("connected"))
                       /\ Goto("assign_machine")
    /\ UNCHANGED <<args, maas_environ, custom_traits, traitVars, nameVars, filterVars>>

\* What placement answers to GET /resource_providers: a failure, or
\* provider records, whose name and uuid may be missing.
ProviderResponses ==
    LET pool == << [name |-> Str(<<"n","1">>), uuid |-> Str(<<"u","1">>)],
                   [name |-> Str(<<"c","-","n","2">>), uuid |-> Str(<<"u","2">>)],
                   [name |-> Str(<<"n","1">>), uuid |-> None],
                   [name |-> None, uuid |-> Str(<<"u","3">>)] >>
    IN  { [ok |-> FALSE, resource_providers |-> <<>>] }
        \cup { [ok |-> TRUE, resource_providers |-> Picked(pool, P, 1)] :
                 P \in { Q \in SUBSET DOMAIN pool : Cardinality(Q) <= MaxItems } }

\* Lines 454-472: a failure of any kind gives the empty list.
get_resource_providers(sent, response) ==
    IF sent /\ response.ok THEN response.resource_providers ELSE <<>>

\* Lines 1044-1062: the four ways a provider's name matches
ProviderMatches(rp, hv_hostname) ==
    LET In(t, u) == t = <<>> \/ Contains(u, t)    \* `t in u` for strings
    IN  \E rp_name \in {IF rp.name.none THEN <<>> ELSE rp.name.s} :
          \/ rp_name = hv_hostname
          \/ lower(rp_name) = lower(hv_hostname)
          \/ In(lower(hv_hostname), lower(rp_name))
          \/ In(lower(rp_name), lower(hv_hostname))

\* How the placement service answers one call of
\* _set_resource_provider_traits: its first `conflicts` PUTs with 409, and
\* whatever comes after that with `then`.
TraitWriteScripts ==
    [conflicts : 0..MAX_RETRIES, then : {"ok", "error", "get failed"}]

RECURSIVE set_traits_attempt(_, _)
\* _set_resource_provider_traits from iteration `att` on, against a script:
\* the result and the number of PUTs answered 409.
set_traits_attempt(script, att) ==
    LET answered(answer) ==
          IF answer = "get failed" THEN [ok |-> FALSE, conflicts |-> att]
          ELSE IF answer = "ok" THEN [ok |-> TRUE, conflicts |-> att]
          ELSE IF ShouldRetry(IF answer = "409" THEN 409 ELSE 500, att)
            THEN set_traits_attempt(script, att + 1)
            ELSE [ok |-> FALSE, conflicts |-> IF answer = "409" THEN att + 1 ELSE att]
    IN  IF att >= MAX_RETRIES THEN [ok |-> FALSE, conflicts |-> att]
        ELSE answered(IF att < script.conflicts THEN "409" ELSE script.then)

\* a machine without a hypervisor that is counted nowhere
AssignCount_NotFoundDropped(c, outcome) ==
    IF outcome = "added" THEN [c EXCEPT !.added = @ + 1]
    ELSE IF outcome = "already_exists" THEN [c EXCEPT !.already_existed = @ + 1]
    ELSE IF outcome = "not_found" THEN c
    ELSE [c EXCEPT !.errors = @ + 1]

\* Lines 1023, 1070, 1128, 1131, 1136: the counter of an outcome
AssignCount(c, outcome) ==
    IF outcome = "added" THEN [c EXCEPT !.added = @ + 1]
    ELSE IF outcome = "already_exists" THEN [c EXCEPT !.already_existed = @ + 1]
    ELSE IF outcome = "not_found" THEN [c EXCEPT !.not_found = @ + 1]
    ELSE [c EXCEPT !.errors = @ + 1]

\* Lines 1015-1019: the positions of the hypervisors of that hostname
HypervisorsOf(hostname) ==
    { i \in DOMAIN hypervisor_map :
        lower(hostname) = lower(hypervisor_map[i].hv_hostname) }

\* Lines 1007-1136 for one machine: "not_found" | "error" | "added" |
\* "already_exists", and the number of PUTs answered 409.
assign_machine_outcome(machine, sent, providers, traits, script) ==
    LET hostname == machine.hostname
        write(written) ==
          [outcome |-> IF written.ok THEN "added" ELSE "error",
           conflicts |-> written.conflicts]
        with_provider(resource_provider) ==
          \* resource_provider["uuid"] raises KeyError
          IF resource_provider.uuid.none THEN [outcome |-> "error", conflicts |-> 0]
          ELSE IF sent /\ traits = "with"
            THEN [outcome |-> "already_exists", conflicts |-> 0]
          ELSE write(IF sent THEN set_traits_attempt(script, 0)
                     ELSE [ok |-> FALSE, conflicts |-> 0])
        match(resource_providers, matching) ==
          IF matching = {} THEN [outcome |-> "error", conflicts |-> 0]
          ELSE with_provider(
                 resource_providers[CHOOSE i \in matching : \A j \in matching : i <= j])
        search(resource_providers, hv_hostname) ==
          match(resource_providers,
                { i \in DOMAIN resource_providers :
                    ProviderMatches(resource_providers[i], hv_hostname) })
        with_hypervisor(hypervisor) ==
          search(get_resource_providers(sent, providers),
                 Or(Or(hypervisor.hypervisor_hostname, hypervisor.name),
                    Str(hostname)).s)
        lookup(found) ==
          IF found = {} THEN [outcome |-> "not_found", conflicts |-> 0]
          ELSE with_hypervisor(
                 hypervisor_map[CHOOSE i \in found : \A j \in found : i <= j].hv)
    IN  lookup(HypervisorsOf(hostname))

\* _set_resource_provider_traits is not called
NoScript == [conflicts |-> 0, then |-> "ok"]

\* Lines 1007-1151: one iteration of the loop; the summary follows the last.
assign_machine ==
    /\ run_pc = "assign_machine"
    /\ todo # <<>>
    /\ \E tr \in TokenAnswers(Self), cr \in CatalogAnswers(Self) :
         \E req \in {make_placement_api_request(Self, tr, cr)} :
         \* Responses that the iteration will not ask for are not enumerated:
         \* the providers are listed for a machine that has a hypervisor;
         \* the provider's traits are read once a provider with a uuid
         \* matches: the read fails, or gives a list without or with the
         \* trait; the traits are written unless the trait is among them.
         \E providers \in
              (IF req.sent /\ HypervisorsOf(Head(todo).hostname) # {}
                 THEN ProviderResponses
                 ELSE { [ok |-> FALSE, resource_providers |-> <<>>] }) :
         \E traits \in
              (IF assign_machine_outcome(Head(todo), req.sent, providers, "with",
                                         NoScript).outcome = "already_exists"
                 THEN { "failed", "without", "with" } ELSE { "failed" }) :
         \E script \in
              (IF assign_machine_outcome(Head(todo), req.sent, providers, traits,
                                         NoScript).outcome = "added"
                 THEN TraitWriteScripts ELSE { NoScript }) :
         \E o \in {assign_machine_outcome(Head(todo), req.sent, providers, traits,
                                          script)} :
         \E rest \in {LoopRest(o.outcome)},
            item \in {ItemEvent("assign_machine", Head(todo).hostname, o.outcome,
                                o.conflicts)} :
             /\ CacheBecomes(IF HypervisorsOf(Head(todo).hostname) = {}
                               THEN Self ELSE req.self)
             /\ counts' = AssignCount(counts, o.outcome)
             /\ todo' = rest
             /\ IF rest = <<>>
                  THEN /\ events' = events \o
                            << item, Event("assign_cpu_traits_to_hypervisors", <<>>,
                                           "summary") >>
                       /\ Exit(0)
                  ELSE /\ events' = Append(events, item)
                       /\ Goto("assign_machine")
    /\ UNCHANGED <<args, maas_environ, hypervisor_map, custom_traits,
                   traitVars, nameVars, filterVars>>

\* What placement answers to GET /traits: a failure (an exception or an
\* error status), or a trait list.
AllTraitsResponses ==
    LET pool == << <<"C","U","S","T","O","M","_","I","N","T","E","L","_","X">>,
                   <<"H","W","_","A">>,
                   <<"C","U","S","T","O","M","_","A","M","D","_","Y">> >>
    IN  { [ok |-> FALSE, traits |-> <<>>] }
        \cup { [ok |-> TRUE, traits |-> Picked(pool, P, 1)] : P \in SUBSET DOMAIN pool }

\* _CUSTOM_TRAIT_PATTERN.match(trait), the pattern being ^CUSTOM_
CUSTOM_TRAIT_PATTERN_match(t) == MatchAt(t, 1, CUSTOM_)

\* Lines 1153-1203: up to the loop over the resource providers
clear_openstack_traits ==
    /\ run_pc = "clear_openstack_traits"
    /\ LET phase(outcome) == Event("clear_openstack_traits", <<>>, outcome) IN
       IF ~check_openstack_environment
         THEN /\ Exit(1) /\ UNCHANGED cacheVars /\ UNCHANGED <<todo, counts, custom_traits>>
              /\ events' = Append(events, phase("no environment"))
       ELSE \E tr \in TokenAnswers(Self), cr \in CatalogAnswers(Self),
               providers \in ProviderResponses, all_traits \in AllTraitsResponses :
              \E r \in {check_openstack_connectivity(Self, tr, cr)} :
              \E req \in {make_placement_api_request(r.self, tr, cr)} :
              \E resource_providers \in {get_resource_providers(req.sent, providers)},
                 custom \in {SelectSeq(all_traits.traits, CUSTOM_TRAIT_PATTERN_match)} :
                  IF ~r.value
                    THEN /\ CacheBecomes(r.self)
                         /\ UNCHANGED <<todo, counts, custom_traits>>
                         /\ events' = Append(events, phase("not connected"))
                         /\ Exit(0)
                  ELSE IF ~(req.sent /\ all_traits.ok)
                    THEN /\ CacheBecomes(req.self)
                         /\ UNCHANGED <<todo, counts, custom_traits>>
                         /\ events' = Append(events, phase("no traits"))
                         /\ Exit(0)
                  ELSE /\ CacheBecomes(req.self)
                       /\ custom_traits' = custom
                       /\ counts' = NoCounts
                       /\ IF resource_providers # <<>>
                            THEN /\ todo' = resource_providers
                                 /\ events' = Append(events, phase("connected"))
                                 /\ Goto("clear_resource_provider")
                          ELSE IF custom # <<>>
                            THEN /\ todo' = sorted(Range(custom))
                                 /\ events' = Append(events, phase("connected"))
                                 /\ Goto("delete_trait")
                          ELSE /\ todo' = <<>>
                               /\ events' = events \o << phase("connected"),
                                                         phase("summary") >>
                               /\ Exit(0)
    /\ UNCHANGED <<args, maas_environ, hypervisor_map, traitVars, nameVars, filterVars>>

\* Lines 1205-1256 for one provider: "skipped" | "no custom traits" |
\* "cleared" | "error", and the number of PUTs answered 409.
clear_provider_outcome(rp, sent, traits, script) ==
    IF ~NonEmpty(rp.name) \/ ~NonEmpty(rp.uuid) THEN [outcome |-> "skipped", conflicts |-> 0]
    ELSE IF ~sent \/ traits # "custom"
      THEN [outcome |-> "no custom traits", conflicts |-> 0]
    ELSE LET write(written) ==
               [outcome |-> IF written.ok THEN "cleared" ELSE "error",
                conflicts |-> written.conflicts]
         IN  write(set_traits_attempt(script, 0))

\* Lines 1205-1256: one iteration of the loop over the providers
clear_resource_provider ==
    /\ run_pc = "clear_resource_provider"
    /\ todo # <<>>
    /\ \E tr \in TokenAnswers(Self), cr \in CatalogAnswers(Self) :
         \E rp \in {Head(todo)},
            req \in {make_placement_api_request(Self, tr, cr)} :
         \E traits \in (IF clear_provider_outcome(rp, req.sent, "custom",
                                                  NoScript).outcome = "cleared"
                          \* the read fails, or gives a list that holds
                          \* CUSTOM_ traits or holds none
                          THEN { "failed", "no custom", "custom" }
                          ELSE { "failed" }) :
         \E script \in (IF traits = "custom" THEN TraitWriteScripts
                          ELSE { NoScript }) :
         \E o \in {clear_provider_outcome(rp, req.sent, traits, script)} :
         \E rest \in {LoopRest(o.outcome)},
            item \in {ItemEvent("clear_resource_provider",
                                IF rp.uuid.none THEN <<>> ELSE rp.uuid.s,
                                o.outcome, o.conflicts)} :
             /\ CacheBecomes(IF o.outcome = "skipped" THEN Self ELSE req.self)
             /\ counts' =
                  IF o.outcome = "cleared" THEN [counts EXCEPT !.cleared = @ + 1]
                  ELSE IF o.outcome = "error" THEN [counts EXCEPT !.errors = @ + 1]
                  ELSE counts
             /\ IF rest # <<>>
                  THEN /\ todo' = rest
                       /\ events' = Append(events, item)
                       /\ Goto("clear_resource_provider")
                ELSE IF custom_traits # <<>>
                  THEN /\ todo' = sorted(Range(custom_traits))
                       /\ events' = Append(events, item)
                       /\ Goto("delete_trait")
                ELSE /\ todo' = <<>>
                     /\ events' = events \o
                          << item, Event("clear_openstack_traits", <<>>, "summary") >>
                     /\ Exit(0)
    /\ UNCHANGED <<args, maas_environ, hypervisor_map, custom_traits,
                   traitVars, nameVars, filterVars>>

\* Lines 1267-1304: one iteration of the loop over the CUSTOM_ traits; the
\* summary follows the last.
delete_trait ==
    /\ run_pc = "delete_trait"
    /\ todo # <<>>
    /\ \E tr \in TokenAnswers(Self), cr \in CatalogAnswers(Self),
          \* status 0 is an exception
          status_code \in {0, 204, 404, 409} :
         \E req \in {make_placement_api_request(Self, tr, cr)} :
         \E deleted \in {req.sent /\ status_code \in SUCCESS_HTTP_CODES} :
         \E item \in {Event("delete_trait", Head(todo),
                             IF deleted THEN "deleted" ELSE "error")} :
         \E rest \in {LoopRest(item.outcome)} :
             /\ CacheBecomes(req.self)
             /\ counts' = IF deleted THEN [counts EXCEPT !.deleted = @ + 1]
                          ELSE [counts EXCEPT !.delete_errors = @ + 1]
             /\ todo' = rest
             /\ IF rest = <<>>
                  THEN /\ events' = events \o
                            << item, Event("clear_openstack_traits", <<>>, "summary") >>
                       /\ Exit(0)
                  ELSE /\ events' = Append(events, item)
                       /\ Goto("delete_trait")
    /\ UNCHANGED <<args, maas_environ, hypervisor_map, custom_traits,
                   traitVars, nameVars, filterVars>>

RunNext ==
    \/ main
    \/ fetch_maas_data
    \/ print_machine_table
    \/ print_cpu_distribution
    \/ create_openstack_traits
    \/ create_trait
    \/ assign_cpu_traits_to_hypervisors
    \/ assign_machine
    \/ clear_openstack_traits
    \/ clear_resource_provider
    \/ delete_trait

-----------------------------------------------------------------------------
(* One iteration of the assign loop and of the clear loop, request by      *)
(* request: the provider is looked for, its traits are read, and           *)
(* _set_resource_provider_traits (above) writes the new list, while        *)
(* another writer may change the provider at any moment.                   *)

\* Lines 1037-1071: the providers are listed and the first one whose name
\* matches the hypervisor in one of the four ways is taken; without one,
\* or without a "uuid" in it (KeyError), the machine is an error.
assign_find_resource_provider ==
    /\ caller = "assign"
    /\ pc \in {"idle", "done"}
    /\ calls < MaxCalls
    /\ calls' = calls + 1
    \* the trait of the machine at hand
    /\ \E name \in { CUSTOM_ \o <<"X">>, CUSTOM_ \o <<"Y">> } : trait_name' = name
    /\ \E matching \in {{ i \in DOMAIN provider_list :
                             ProviderMatches(provider_list[i], hypervisor_hostname) }} :
       \E found \in {IF matching = {} THEN <<>>
                     ELSE << provider_list[CHOOSE i \in matching :
                                             \A j \in matching : i <= j] >>} :
         /\ provider' = found
         /\ IF found = <<>> \/ found[1].uuid.none
              THEN pc' = "done" /\ result' = "error"
              ELSE pc' = "read" /\ result' = "none"
    /\ attempt' = 0 /\ generation' = 0 /\ trait_names' = <<>> /\ api_calls' = <<>>
    /\ traits_response' = "none" /\ current_trait_names' = <<>>
    /\ UNCHANGED <<rp_generation, rp_traits, caller, hypervisor_hostname,
                   provider_list, nameVars, filterVars, cacheVars, runVars>>

\* Lines 1078-1104: the provider's traits are read (a failed read gives the
\* empty list, lines 344-361); the trait is on the list, or
\* _set_resource_provider_traits is called with the list and the trait.
assign_add_trait ==
    /\ caller = "assign"
    /\ pc = "read"
    /\ \E response \in {"ok", "failed"} :
       \E current \in {IF response = "ok" THEN rp_traits ELSE <<>>} :
         /\ traits_response' = response
         /\ current_trait_names' = current
         /\ IF \E i \in DOMAIN current : current[i] = trait_name
              THEN /\ pc' = "done" /\ result' = "already_exists"
                   /\ trait_names' = trait_names
              ELSE /\ pc' = "get" /\ result' = "none"
                   /\ trait_names' = Append(current, trait_name)
    /\ attempt' = 0 /\ generation' = 0
    /\ UNCHANGED <<api_calls, calls, rp_generation, rp_traits, caller,
                   hypervisor_hostname, trait_name, provider_list, provider,
                   nameVars, filterVars, cacheVars, runVars>>

\* Lines 1204-1215: the next provider of the list; one without a name or a
\* uuid is skipped.  The provider has a trait list of its own.
clear_take_resource_provider ==
    /\ caller = "clear"
    /\ pc \in {"idle", "done"}
    /\ calls < MaxCalls /\ calls < Len(provider_list)
    /\ calls' = calls + 1
    /\ \E rp \in {provider_list[calls + 1]} :
         /\ provider' = <<rp>>
         /\ IF ~NonEmpty(rp.name) \/ ~NonEmpty(rp.uuid)
              THEN pc' = "done" /\ result' = "skipped"
              ELSE pc' = "read" /\ result' = "none"
    /\ \E traits \in TraitLists
                       \cup { << <<"H","W","_","B">>, CUSTOM_ \o <<"X">>,
                                 <<"H","W","_","A">> >> } : rp_traits' = traits
    /\ attempt' = 0 /\ generation' = 0 /\ trait_names' = <<>> /\ api_calls' = <<>>
    /\ traits_response' = "none" /\ current_trait_names' = <<>>
    /\ UNCHANGED <<rp_generation, caller, hypervisor_hostname, trait_name,
                   provider_list, nameVars, filterVars, cacheVars, runVars>>

non_custom_traits_All(current_traits) == current_traits \o <<>>

\* Lines 1233-1237: the traits that do not start with CUSTOM_, in order.
non_custom_traits(current_traits) ==
    SelectSeq(current_traits, LAMBDA t : ~CUSTOM_TRAIT_PATTERN_match(t))

\* Lines 1217-1242: the provider's traits are read; without a CUSTOM_ trait
\* among them nothing is written, otherwise _set_resource_provider_traits
\* is called with the other traits.
clear_remove_custom_traits ==
    /\ caller = "clear"
    /\ pc = "read"
    /\ \E response \in {"ok", "failed"} :
       \E current \in {IF response = "ok" THEN rp_traits ELSE <<>>} :
         /\ traits_response' = response
         /\ current_trait_names' = current
         /\ IF SelectSeq(current, CUSTOM_TRAIT_PATTERN_match) = <<>>
              THEN /\ pc' = "done" /\ result' = "no custom traits"
                   /\ trait_names' = trait_names
              ELSE /\ pc' = "get" /\ result' = "none"
                   /\ trait_names' = non_custom_traits(current)
    /\ attempt' = 0 /\ generation' = 0
    /\ UNCHANGED <<api_calls, calls, rp_generation, rp_traits, caller,
                   hypervisor_hostname, trait_name, provider_list, provider,
                   nameVars, filterVars, cacheVars, runVars>>

-----------------------------------------------------------------------------
(* The methods of the placement client, called on an analyzer of their own *)

\* self._check_openstack_connectivity()
CheckConnectivity ==
    /\ last_call.op # "off"
    /\ \E tr \in TokenAnswers(Self), cr \in CatalogAnswers(Self) :
         \E r \in {check_openstack_connectivity(Self, tr, cr)} :
           /\ Becomes(r.self)
           /\ obtained' = Obtain(Self, r.self)
           /\ last_call' = CallRecord("connectivity", <<>>, NoToken, r)
    /\ UNCHANGED <<environ, cloud_catalog, traitVars, nameVars, filterVars,
                   runVars>>

\* self._make_placement_api_request(method, endpoint, data), lines 107-147:
\* session.request sends the request, and returns a response or raises
\* (status 0).  The call record holds under `key` the exception raised and
\* whether the request was sent to the placement service, and under `value`
\* the headers of the request; its `requests` are those sent to the
\* identity service.
MakePlacementApiRequest ==
    /\ last_call.op # "off"
    /\ \E tr \in TokenAnswers(Self), cr \in CatalogAnswers(Self) :
         \E req \in {make_placement_api_request(Self, tr, cr)} :
         \E status_code \in (IF req.sent THEN {0, 200, 500} ELSE {0}) :
         \E r \in {[self |-> req.self,
                     raised |-> ~req.sent \/ status_code = 0,
                     value |-> req.headers]} :
           /\ Becomes(r.self)
           /\ obtained' = Obtain(Self, r.self)
           /\ last_call' =
                CallRecord("request",
                           << IF req.sent /\ status_code = 0
                                THEN "RequestException" ELSE req.raised,
                              req.sent >>,
                           NoToken, r)
    /\ UNCHANGED <<environ, cloud_catalog, traitVars, nameVars, filterVars,
                   runVars>>

\* self._create_trait(trait_name), lines 528-565.  The call record holds
\* under `key` the response of the service and whether the request was sent,
\* and under `value` the pair returned.
CreateTrait ==
    /\ last_call.op # "off"
    /\ \E tr \in TokenAnswers(Self), cr \in CatalogAnswers(Self) :
         \E req \in {make_placement_api_request(Self, tr, cr)} :
         \* a request that is not sent has no response
         \E response \in (IF req.sent THEN CreateTraitResponses
                          ELSE { r \in CreateTraitResponses : r.status_code = 0 }) :
         \E r \in {[self |-> req.self,
                     raised |-> FALSE,
                     value |-> create_trait_status(req.sent, response)]} :
           /\ Becomes(r.self)
           /\ obtained' = Obtain(Self, r.self)
           /\ last_call' = CallRecord("create_trait", <<response, req.sent>>,
                                      NoToken, r)
    /\ UNCHANGED <<environ, cloud_catalog, traitVars, nameVars, filterVars,
                   runVars>>

-----------------------------------------------------------------------------
(* Specifications *)

TraitsParked ==
    /\ pc = "off" /\ attempt = 0 /\ generation = 0 /\ trait_names = <<>>
    /\ result = "none" /\ api_calls = <<>> /\ calls = 0
    /\ rp_generation = 0 /\ rp_traits = <<>>
    /\ caller = "none" /\ hypervisor_hostname = <<>> /\ trait_name = <<>>
    /\ provider_list = <<>> /\ provider = <<>>
    /\ traits_response = "none" /\ current_trait_names = <<>>

NameParked ==
    /\ name_pc = "off" /\ cpu_model = None /\ trait = <<>> /\ trait2 = <<>>
    /\ vendor = [called |-> FALSE, none |-> TRUE, s |-> <<>>]

FilterParked ==
    /\ filter_pc = "off" /\ machines = <<>> /\ zone = NoneStr
    /\ deployed_only = FALSE /\ tags = <<>>
    /\ filtered = [raised |-> FALSE, list |-> <<>>]

CacheParked ==
    /\ auth_token = NoToken /\ placement_endpoint = None /\ session = 0
    /\ service_catalog = NoCatalog /\ service_endpoints = NoEndpoints
    /\ environ = [OS_AUTH_URL |-> TRUE, credentials |-> TRUE]
    /\ cloud_catalog = EmptyBody /\ http_log = <<>>
    /\ sessions = [created |-> 0, closed |-> {}]
    /\ obtained = NothingObtained(0)
    /\ last_call = [NoCall EXCEPT !.op = "off"]

RunParked ==
    /\ run_pc = "off" /\ exit_status = -1 /\ events = <<>> /\ todo = <<>>
    /\ args = [create_openstack_traits |-> FALSE,
               assign_traits_to_hypervisors |-> FALSE,
               clear_openstack_traits |-> FALSE]
    /\ maas_environ = [MAAS_URL |-> None, MAAS_API_KEY |-> None]
    /\ counts = NoCounts /\ hypervisor_map = <<>> /\ custom_traits = <<>>

TraitsNext ==
    \/ set_resource_provider_traits_call
    \/ set_resource_provider_traits_get
    \/ set_resource_provider_traits_put
    \/ ExternalWrite

InitTraits == TraitsInit /\ NameParked /\ FilterParked /\ CacheParked /\ RunParked

SpecTraits ==
    /\ InitTraits
    /\ [][TraitsNext]_vars

\* The method is straight-line synchronous code: once called, each of its
\* steps is taken (every HTTP call returns or raises within HTTP_TIMEOUT).
SpecTraitsFair ==
    /\ SpecTraits
    /\ WF_vars(set_resource_provider_traits_get)
    /\ WF_vars(set_resource_provider_traits_put)

WriteNext ==
    \/ assign_find_resource_provider
    \/ assign_add_trait
    \/ clear_take_resource_provider
    \/ clear_remove_custom_traits
    \/ set_resource_provider_traits_get
    \/ set_resource_provider_traits_put
    \/ ExternalWrite

\* One of the two loops is about to visit an item.  The hypervisor is n1;
\* the providers listed are up to MaxItems of: one named as the hypervisor,
\* one whose name holds the hypervisor's, one without a name, one without a
\* uuid.  The provider's generation is any number: the one taken leaves
\* room for one write of another client.
InitWrite ==
    /\ pc = "idle"
    /\ attempt = 0
    /\ generation = 0
    /\ trait_names = <<>>
    /\ result = "none"
    /\ api_calls = <<>>
    /\ calls = 0
    /\ rp_generation = MaxGeneration - 1
    /\ rp_traits \in TraitLists
    /\ caller \in {"assign", "clear"}
    /\ hypervisor_hostname = <<"n","1">>
    /\ trait_name = <<>>
    /\ LET pool == { [name |-> Str(<<"n","1">>), uuid |-> Str(<<"u","1">>)],
                     [name |-> Str(<<"c","-","n","1">>), uuid |-> Str(<<"u","3">>)],
                     [name |-> None, uuid |-> Str(<<"u","4">>)],
                     [name |-> Str(<<"n","1">>), uuid |-> None] }
       IN  provider_list \in
             { list \in UNION { [1..n -> pool] : n \in 0..MaxItems } :
                 \A i, j \in DOMAIN list : list[i] = list[j] => i = j }
    /\ provider = <<>>
    /\ traits_response = "none"
    /\ current_trait_names = <<>>
    /\ NameParked /\ FilterParked /\ CacheParked /\ RunParked

SpecWrite ==
    /\ InitWrite
    /\ [][WriteNext]_vars

InitName == NameInit /\ TraitsParked /\ FilterParked /\ CacheParked /\ RunParked

SpecName ==
    /\ InitName
    /\ [][NameNext]_vars

InitFilter == FilterInit /\ TraitsParked /\ NameParked /\ CacheParked /\ RunParked

SpecFilter ==
    /\ InitFilter
    /\ [][FilterNext]_vars

CacheNext ==
    \/ GetToken
    \/ GetCatalog
    \/ GetEndpoint
    \/ GetPlacementEndpoint
    \/ ClearCache

\* Lines 42-48
InitCache ==
    /\ auth_token = NoToken
    /\ placement_endpoint = None
    /\ session = 0
    /\ service_catalog = NoCatalog
    /\ service_endpoints = NoEndpoints
    /\ environ \in Environments
    /\ cloud_catalog \in CatalogBodies
    /\ http_log = <<>>
    /\ sessions = [created |-> 0, closed |-> {}]
    /\ obtained = NothingObtained(0)
    /\ last_call = NoCall
    /\ TraitsParked /\ NameParked /\ FilterParked /\ RunParked

SpecCache ==
    /\ InitCache
    /\ [][CacheNext]_vars

\* The methods that use the discovery, on an analyzer as __init__ leaves it.
ClientNext ==
    \/ CheckConnectivity
    \/ MakePlacementApiRequest
    \/ CreateTrait
    \/ ClearCache

SpecClient ==
    /\ InitCache
    /\ [][ClientNext]_vars

\* Lines 1337-1404 and 42-48: the command line and the environments of the
\* model, and the analyzer as __init__ leaves it.
InitRun ==
    /\ run_pc = "main"
    /\ args \in [create_openstack_traits : BOOLEAN,
                 assign_traits_to_hypervisors : BOOLEAN,
                 clear_openstack_traits : BOOLEAN]
    /\ maas_environ \in
         [MAAS_URL : { None, Str(<<"m">>) },
          MAAS_API_KEY : { Str(<<>>), Str(<<"a",":","b">>),
                           Str(<<"a",":","b",":","c">>),
                           Str(<<"a",":","b",":","c",":","d">>) }]
    /\ exit_status = -1
    /\ events = <<>>
    /\ todo = <<>>
    /\ counts = NoCounts
    /\ hypervisor_map = <<>>
    /\ custom_traits = <<>>
    \* the arguments of run and the machine list it fetches
    /\ filter_pc = "off"
    /\ machines = <<>>
    /\ zone \in { NoneStr, [none |-> FALSE, s |-> "z1"] }
    /\ deployed_only \in BOOLEAN
    /\ tags = <<>>
    /\ filtered = [raised |-> FALSE, list |-> <<>>]
    \* the analyzer's cache fields and the identity service
    /\ auth_token = NoToken
    /\ placement_endpoint = None
    /\ session = 0
    /\ service_catalog = NoCatalog
    /\ service_endpoints = NoEndpoints
    /\ environ \in Environments
    \* catalogs with placement and compute, with placement only, and
    \* without a public placement endpoint
    /\ cloud_catalog \in
         { body \in CatalogBodies :
             /\ ~body.broken
             /\ body.services # <<>>
             /\ \A i \in DOMAIN body.services :
                  \A j \in DOMAIN body.services[i].endpoints :
                    /\ ~body.services[i].endpoints[j].url.none
                    /\ Len(body.services[i].endpoints[j].url.s) > 1 }
    /\ http_log = <<>>
    /\ sessions = [created |-> 0, closed |-> {}]
    /\ obtained = NothingObtained(0)
    /\ last_call = [NoCall EXCEPT !.op = "off"]
    /\ TraitsParked /\ NameParked

SpecRun ==
    /\ InitRun
    /\ [][RunNext]_vars

-----------------------------------------------------------------------------
(* Properties of _set_resource_provider_traits *)

\* The requests the call has sent to the placement service, in order.
requests == SelectSeq(api_calls, Sent)

Gets == SelectSeq(requests, LAMBDA r : r.method = "GET")

Puts == SelectSeq(requests, LAMBDA r : r.method = "PUT")

Conflict(r) == r.response.kind = "response" /\ r.response.status_code = 409

\* C1: when the call has returned, (a) if its PUTs were answered 409, 409
\* and then a success code, it returned True after 2 retries and 3 PUTs;
\* (b) if it returned on a PUT answered 409, that PUT was the third one,
\* all three were answered 409, and it returned False.
C1_ConflictRetry ==
    pc = "done" =>
      /\ (Len(Puts) >= 3 /\ Conflict(Puts[1]) /\ Conflict(Puts[2])
            /\ IsSuccess(Puts[3].response))
           => (result = "True" /\ attempt = 2 /\ Len(Puts) = 3)
      /\ (api_calls # <<>> /\ api_calls[Len(api_calls)].method = "PUT"
            /\ Conflict(api_calls[Len(api_calls)]))
           => (Len(Puts) = 3 /\ result = "False"
               /\ \A i \in DOMAIN Puts : Conflict(Puts[i]))

\* C1 witness: a call that returned True on its third PUT.
C1_Witness ==
    /\ pc = "done" /\ result = "True" /\ attempt = 2
    /\ Len(Puts) = 3 /\ Conflict(Puts[1]) /\ Conflict(Puts[2])

\* C2: whatever the placement service answers, a call sends at most 3
\* generation reads and at most 3 trait-set writes, and a call that has
\* started returns.
C2_BoundedAttempts ==
    /\ [](Len(Gets) <= 3 /\ Len(Puts) <= 3)
    /\ (pc \in {"get", "put"}) ~> (pc = "done")

\* C2 witness: a call that returned after 3 reads and 3 writes.
C2_Witness == pc = "done" /\ Len(Gets) = 3 /\ Len(Puts) = 3

\* C3: every PUT is the request right after a successful GET of the
\* provider and carries the generation read from that GET's body (a body
\* without the field reads as 0, as rp_data.get("generation", 0) does); so
\* each retry reads the generation again.
C3_FreshGeneration ==
    \A i \in DOMAIN requests :
      requests[i].method = "PUT" =>
        /\ i > 1
        /\ requests[i - 1].method = "GET"
        /\ IsSuccess(requests[i - 1].response)
        /\ LET body == requests[i - 1].response.body IN
             requests[i].resource_provider_generation
               = IF body.has_generation THEN body.generation ELSE 0

\* C3 witness: a retry whose PUT carries a newer generation than the PUT
\* before it, the provider having been written by someone else in between.
C3_Witness ==
    \E i, j \in DOMAIN Puts :
      /\ i < j
      /\ Puts[i].resource_provider_generation < Puts[j].resource_provider_generation

-----------------------------------------------------------------------------
(* Properties of generate_trait_name *)

\* A trait identifier as section 8 of the specification describes it.
WellFormedTrait(t) ==
    /\ Range(t) \subseteq UpperAlnum \cup {"_"}
    /\ MatchAt(t, 1, CUSTOM_)
    /\ t[1] # "_"
    /\ t[Len(t)] # "_"
    /\ \A i \in 1..(Len(t) - 1) : ~(t[i] = "_" /\ t[i + 1] = "_")

\* C4: for every CPU model string the derived trait contains only
\* [A-Z0-9_], starts with CUSTOM_, and has no leading, trailing or doubled
\* underscore.
C4_WellFormedOutput == name_pc # "input" => WellFormedTrait(trait)

\* The derivation in the words of the specification.  The words of a string
\* are its maximal runs of [A-Z0-9]; joining them with single underscores
\* is what replacing, collapsing and trimming amount to.
RECURSIVE JoinWords(_, _, _)
JoinWords(s, i, acc) ==
    IF i > Len(s) THEN acc
    ELSE IF s[i] \notin UpperAlnum THEN JoinWords(s, i + 1, acc)
    ELSE IF acc # <<>> /\ i > 1 /\ s[i - 1] \notin UpperAlnum
      THEN JoinWords(s, i + 1, acc \o <<"_", s[i]>>)
      ELSE JoinWords(s, i + 1, Append(acc, s[i]))

Prefixed(clean) ==
    IF Contains(clean, INTEL) \/ Contains(clean, AMD)
      THEN CUSTOM_ \o clean
      ELSE CUSTOM_ \o <<"U","N","K","N","O","W","N","_">> \o clean

\* "strip a trailing CPU or PROCESSOR token": the string ends with the
\* token, which starts the string or follows a whitespace character.
StripTrailingToken(u) ==
    IF \E tok \in {CPU, PROCESSOR} :
         LET t == Len(u) - Len(tok) + 1 IN
           MatchAt(u, t, tok) /\ (t = 1 \/ u[t - 1] \in Whitespace)
      THEN LET tok == CHOOSE tok \in {CPU, PROCESSOR} :
                        MatchAt(u, Len(u) - Len(tok) + 1, tok)
           IN  SubSeq(u, 1, Len(u) - Len(tok))
      ELSE u

\* The same, for a token that follows at least one whitespace character and
\* ends the string or stands before a newline that ends the string.
StripTrailingTokenAfterSpace(u) ==
    LET n == IF Len(u) > 0 /\ u[Len(u)] = "\n" THEN Len(u) - 1 ELSE Len(u)
        Stripped(tok) ==
            LET t == n - Len(tok) + 1 IN
              MatchAt(u, t, tok) /\ t > 1 /\ u[t - 1] \in Whitespace
    IN  IF \E tok \in {CPU, PROCESSOR} : Stripped(tok)
          THEN LET tok == CHOOSE tok \in {CPU, PROCESSOR} : Stripped(tok)
               IN  SubSeq(u, 1, n - Len(tok))
          ELSE u

ReferenceDerivation(m) ==
    IF m.none \/ m.s = <<>> THEN CUSTOM_UNKNOWN_EMPTY
    ELSE Prefixed(JoinWords(StripTrailingToken(upper(m.s)), 1, <<>>))

AmendedDerivation(m) ==
    IF m.none \/ m.s = <<>> THEN CUSTOM_UNKNOWN_EMPTY
    ELSE Prefixed(JoinWords(StripTrailingTokenAfterSpace(upper(m.s)), 1, <<>>))

\* C5 as stated: generate_trait_name equals the reference derivation, which
\* strips a trailing CPU or PROCESSOR token.
C5_EqualsReference == name_pc # "input" => trait = ReferenceDerivation(cpu_model)

\* C5 as amended: generate_trait_name equals the reference derivation in
\* which the trailing CPU or PROCESSOR token is stripped only when at least
\* one whitespace character precedes it, and also when a single final
\* newline follows it.
C5_EqualsAmendedReference ==
    name_pc # "input" => trait = AmendedDerivation(cpu_model)

\* C5 witness: the example of the specification, whose trailing Processor
\* token is stripped.
C5_Witness ==
    /\ name_pc = "derived"
    /\ cpu_model = Str(<<"A","M","D"," ","E","P","Y","C"," ","7","5","5","1","P"," ",
                         "3","2","-","C","o","r","e"," ",
                         "P","r","o","c","e","s","s","o","r">>)
    /\ trait = <<"C","U","S","T","O","M","_","A","M","D","_","E","P","Y","C","_",
                 "7","5","5","1","P","_","3","2","_","C","O","R","E">>

\* C6: deriving a trait from a derived trait only puts prefix text in front
\* of it: the name derived before is kept unchanged behind the new prefix.
C6_IdempotentOnOutput ==
    name_pc = "rederived" =>
      \E prefix \in {CUSTOM_, CUSTOM_UNKNOWN_} : trait2 = prefix \o trait

\* C20: get_cpu_vendor returns INTEL or AMD, a vendor the model string names
\* in some letter case, when it names one, and the string UNKNOWN for every
\* other input: a model naming neither vendor, the empty string, None.
C20_VendorOrUnknown ==
    vendor.called =>
      IF ~cpu_model.none
           /\ (Contains(upper(cpu_model.s), INTEL) \/ Contains(upper(cpu_model.s), AMD))
        THEN /\ ~vendor.none
             /\ vendor.s \in {INTEL, AMD}
             /\ Contains(upper(cpu_model.s), vendor.s)
        ELSE vendor = [called |-> TRUE, none |-> FALSE, s |-> UNKNOWN]

\* C30: the two vendor tests agree on every CPU model string: the match of
\* (?i)(intel|amd) on the raw model holds exactly when generate_trait_name
\* takes its vendor branch, whose output is CUSTOM_ followed by the cleaned
\* name with no UNKNOWN_ put in between.
C30_VendorTestsAgree ==
    (name_pc # "input" /\ ~cpu_model.none) =>
      (~INTEL_AMD_PATTERN_search(cpu_model.s).none
         <=> trait = CUSTOM_ \o cpu_clean(cpu_model.s))

-----------------------------------------------------------------------------
(* Properties of filter_machines *)

ZoneGiven == Truthy(zone)

TagsGiven == tags # <<>>

\* The three predicates of section 4.2, on a machine record.
ZoneHolds(m) == ZoneGiven => (m.zone.present /\ m.zone.name = zone.s)

DeployedHolds(m) == deployed_only => m.status_name = "Deployed"

\* The names in a tag list, whichever way each tag is represented.
TagNames(m) ==
    { m.tag_names[i].name : i \in { j \in DOMAIN m.tag_names : m.tag_names[j].has_name } }

TagsHold(m) == TagsGiven => TagNames(m) \cap Range(tags) # {}

Returned(list) == [raised |-> FALSE, list |-> list]

\* C7: filter_machines returns the machines for which the zone, status and
\* tag predicates that were supplied all hold, in input order, nothing
\* added, duplicated or changed.
C7_ExactSublist ==
    filter_pc = "returned" =>
      filtered = Returned(SelectSeq(machines,
                   LAMBDA m : ZoneHolds(m) /\ DeployedHolds(m) /\ TagsHold(m)))

\* C8: with no filter given the input list is returned as it is, and a
\* filter that is not given excludes nothing: the list returned is the list
\* of the machines that meet the other two predicates.  (With tags given the
\* call may raise instead of returning; that is C10's case.)
C8_AbsentFilterPassThrough ==
    filter_pc = "returned" =>
      /\ (~ZoneGiven /\ ~deployed_only /\ ~TagsGiven) => filtered = Returned(machines)
      /\ ~TagsGiven =>
           filtered = Returned(SelectSeq(machines,
                        LAMBDA m : ZoneHolds(m) /\ DeployedHolds(m)))
      /\ (~ZoneGiven /\ ~filtered.raised) =>
           filtered.list = SelectSeq(machines,
                             LAMBDA m : DeployedHolds(m) /\ TagsHold(m))
      /\ (~deployed_only /\ ~filtered.raised) =>
           filtered.list = SelectSeq(machines,
                             LAMBDA m : ZoneHolds(m) /\ TagsHold(m))

\* C8 witness: a list of machines in two zones and two statuses returned
\* whole, the zone argument being the empty string.
C8_Witness ==
    /\ filter_pc = "returned"
    /\ zone = [none |-> FALSE, s |-> ""] /\ ~deployed_only /\ ~TagsGiven
    /\ Len(machines) >= 2
    /\ machines[1].zone # machines[2].zone
    /\ machines[1].status_name # machines[2].status_name
    /\ filtered = Returned(machines)

\* C9: filtering by a zone name that no machine of the list has returns the
\* empty list, whatever the deployed-only flag and the tags are.
C9_UnknownZoneEmpty ==
    (filter_pc = "returned" /\ ZoneGiven
       /\ \A i \in DOMAIN machines :
            ~(machines[i].zone.present /\ machines[i].zone.name = zone.s))
      => filtered = Returned(<<>>)

\* C9 witness: such a call on a list that holds a machine without a zone
\* record and a machine of another zone, with tags given.
C9_Witness ==
    /\ filter_pc = "returned" /\ ZoneGiven /\ TagsGiven
    /\ \E i, j \in DOMAIN machines :
         /\ ~machines[i].zone.present
         /\ machines[j].zone.present /\ machines[j].zone.name # zone.s
    /\ \A i \in DOMAIN machines :
         ~(machines[i].zone.present /\ machines[i].zone.name = zone.s)
    /\ filtered = Returned(<<>>)

\* The machine with its tags written as bare strings.
AsBareStrings(m) ==
    [m EXCEPT !.tag_names =
       [i \in DOMAIN m.tag_names |-> StrTag(tag_get_name(m.tag_names[i]))]]

\* C10: the call returns what it returns for the same machines with their
\* tags written as bare strings: the machines of which one tag at least is
\* requested, for every tag list, of one representation or of both.
C10_TagRepresentation ==
    (filter_pc = "returned" /\ TagsGiven) =>
      /\ ~filtered.raised
      /\ \A i \in DOMAIN machines :
           (\E j \in DOMAIN filtered.list : filtered.list[j] = machines[i])
             <=> should_include_machine(AsBareStrings(machines[i]), zone,
                                        deployed_only, Range(tags)) = "True"

-----------------------------------------------------------------------------
(* Properties of the caches *)

Lookups == {"token", "catalog", "endpoint", "placement"}

ServedFromCache ==
    /\ ~last_call.raised
    /\ last_call.value = last_call.known
    /\ last_call.requests = 0

\* C17 as stated: a token, catalog or endpoint that has been obtained since
\* the last _clear_cache is what every later request for it returns, and no
\* HTTP request is sent for it.
C17_CachedUntilReset ==
    (last_call.op \in Lookups /\ ~last_call.known.none) => ServedFromCache

\* C17 as amended: the same for the catalog and the endpoints; for the token
\* it holds until _clear_cache is called or a catalog request is answered
\* 401, which drops the cached token.
C17_CachedUntilResetOrUnauthorized ==
    (/\ last_call.op \in Lookups
     /\ ~last_call.known.none
     /\ ~(last_call.op = "token" /\ last_call.unauthorized))
      => ServedFromCache

\* C17 witness: a token request served from the cache after the token and
\* the catalog were fetched.
C17_Witness ==
    /\ last_call.op = "token"
    /\ ~last_call.known.none /\ ~last_call.unauthorized
    /\ last_call.value = auth_token
    /\ last_call.requests = 0
    /\ ~service_catalog.none

\* C18: right after _clear_cache the token, the placement endpoint and the
\* catalog are absent, the endpoint cache is empty and the session it had is
\* closed and dropped; the first request after a reset that returns a value
\* sends an HTTP request for it, and a token or catalog returned after a
\* reset was granted after that reset.
C18_CompleteReset ==
    /\ last_call.op = "clear" =>
         /\ auth_token = NoToken
         /\ placement_endpoint = None
         /\ service_catalog = NoCatalog
         /\ service_endpoints = NoEndpoints
         /\ session = 0
         /\ last_call.key[1] # 0 => last_call.key[1] \in sessions.closed
    /\ (last_call.op \in Lookups /\ ~last_call.raised /\ ~last_call.value.none) =>
         /\ last_call.first => last_call.requests > 0
         /\ last_call.op = "token" => last_call.value.id > obtained.requests
         /\ last_call.op = "catalog" => last_call.value.serial > obtained.requests

\* C18 witness: after a reset of an object that had fetched a token and a
\* catalog on a session, the first token request is answered with a new
\* token, fetched on a new session.
C18_Witness ==
    /\ last_call.op = "token" /\ last_call.first
    /\ last_call.value = Token(3)
    /\ last_call.requests = 1
    /\ obtained.requests = 2
    /\ sessions.closed = {1} /\ session = 2

\* The url the cached catalog holds for a key, if any.
CatalogUrl(key) == FirstUrl(service_catalog.body, key[1], key[2])

\* C19: with a catalog at hand, a lookup of a service or endpoint that the
\* catalog does not hold returns None, raises nothing and leaves nothing in
\* the endpoint cache under its key; a lookup of a service that the catalog
\* holds returns its endpoint, whatever lookups failed before.
C19_NotFoundIsNotFatal ==
    (last_call.op = "endpoint" /\ ~service_catalog.none) =>
      /\ ~last_call.raised
      /\ IF CatalogUrl(last_call.key).none
           THEN /\ last_call.value = None
                /\ last_call.key \notin DOMAIN service_endpoints
           ELSE last_call.value = Str(rstrip(CatalogUrl(last_call.key).s, "/"))

\* C19 witness: the lookup of one service failed, and the lookup of another
\* one after it returned an endpoint from the same catalog.
C19_Witness ==
    /\ last_call.op = "endpoint"
    /\ ~last_call.value.none
    /\ last_call.requests = 0
    /\ obtained.not_found # {}
    /\ last_call.key \notin obtained.not_found


-----------------------------------------------------------------------------
(* Properties of main and run *)

Exited == run_pc = "exited"

\* The events of that kind and outcome, by position.
Happened(what, outcome) ==
    { i \in DOMAIN events : events[i].what = what /\ events[i].outcome = outcome }

NotConnected == \E i \in DOMAIN events : events[i].outcome = "not connected"

\* C11: in each of the create, create+assign and clear modes, a run whose
\* OpenStack connectivity check has failed ends with a non-zero exit status.
C11_ConnectivityFailureExitsNonZero ==
    (Exited /\ NotConnected) => exit_status # 0


\* MAAS_URL or MAAS_API_KEY unset or empty, or a key that is not three
\* parts separated by colons.
BadInventoryConfiguration ==
    \/ maas_environ.MAAS_URL.none \/ maas_environ.MAAS_URL.s = <<>>
    \/ maas_environ.MAAS_API_KEY.none \/ maas_environ.MAAS_API_KEY.s = <<>>
    \/ Len(SelectSeq(maas_environ.MAAS_API_KEY.s, LAMBDA c : c = ":")) # 2

\* run has called fetch_maas_data and the call is over.
FetchIsOver ==
    /\ events # <<>>
    /\ ~args.clear_openstack_traits
    /\ run_pc # "fetch_maas_data"

\* C12: with a missing or malformed inventory configuration,
\* fetch_maas_data ends the process with status 1; no GET is sent, no
\* session is opened for it and no machine list comes back.
C12_BadConfigurationIsFatal ==
    (BadInventoryConfiguration /\ FetchIsOver) =>
        /\ Exited /\ exit_status = 1
        /\ Happened("GET /api/2.0/machines/", "ok") = {}
        /\ Happened("GET /api/2.0/machines/", "failed") = {}
        /\ Len(events) = 1
        /\ machines = <<>>
        /\ session = 0 /\ sessions.created = 0 /\ http_log = <<>>

\* A key of four parts has ended the process.
C12_Witness ==
    /\ FetchIsOver /\ Exited /\ exit_status = 1
    /\ ~maas_environ.MAAS_URL.none /\ maas_environ.MAAS_URL.s # <<>>
    /\ Len(SelectSeq(maas_environ.MAAS_API_KEY.s, LAMBDA c : c = ":")) = 3


\* The items of the events of a loop, in the order of the events.
ItemsIn(evs, loop) ==
    LET of_loop == SelectSeq(evs, LAMBDA e : e.what = loop)
    IN  [i \in DOMAIN of_loop |-> of_loop[i].item]

\* What the events record of an item of `todo`.
ItemId(loop, x) ==
    IF loop = "assign_machine" THEN x.hostname
    ELSE IF loop = "clear_resource_provider"
      THEN (IF x.uuid.none THEN <<>> ELSE x.uuid.s)
    ELSE x

Ids(loop, xs) == [i \in DOMAIN xs |-> ItemId(loop, xs[i])]

\* The items visited so far, then the items still to visit.
Visited(loop) ==
    ItemsIn(events, loop) \o (IF run_pc = loop THEN Ids(loop, todo) ELSE <<>>)

Started(phase) == Happened(phase, "connected") # {}

Listed == filter_machines(machines, zone, deployed_only, tags).list

Loops == {"create_trait", "assign_machine", "clear_resource_provider", "delete_trait"}

\* One iteration: one event, of the first item to visit; the other items
\* stay to visit, in the same loop.
Iteration(loop) ==
    run_pc = loop =>
      /\ ItemsIn(events', loop) =
           Append(ItemsIn(events, loop), ItemId(loop, Head(todo)))
      /\ Tail(todo) # <<>> => run_pc' = loop /\ todo' = Tail(todo)
      /\ Tail(todo) = <<>> => run_pc' # loop

\* C13: whatever happens to an item, the loops over the traits to create,
\* the machines, the resource providers and the traits to delete go on:
\* each iteration handles the first item left and leaves the others to
\* the same loop, and the items handled and the items left are, in order,
\* the items of the list the loop started with, each once.
C13_LoopsGoOnAfterFailure ==
    /\ [][\A loop \in Loops : Iteration(loop)]_vars
    /\ [](Started("create_openstack_traits") =>
            Visited("create_trait") = sorted(TraitNamesOf(Listed)))
    /\ [](Started("assign_cpu_traits_to_hypervisors") =>
            Visited("assign_machine") = Ids("assign_machine", DeployedMachines(Listed)))
    /\ [](Started("clear_openstack_traits") /\ run_pc # "clear_resource_provider" =>
            Visited("delete_trait") = sorted(Range(custom_traits)))

\* A failed item at position i of a loop's events, and a later one.
GoesOnAfterFailure(loop) ==
    \E i, j \in DOMAIN events :
      /\ i < j
      /\ events[i].what = loop /\ events[i].outcome = "error"
      /\ events[j].what = loop

\* A create+assign run in which the first trait and the first machine
\* failed, has ended.
C13_Witness ==
    /\ Exited
    /\ GoesOnAfterFailure("create_trait")
    /\ GoesOnAfterFailure("assign_machine")

\* A clear run in which a provider and a trait failed, has ended.
C13_WitnessClear ==
    /\ Exited
    /\ GoesOnAfterFailure("clear_resource_provider")
    /\ GoesOnAfterFailure("delete_trait")


\* The events of the machines that the assign loop has handled.
MachineEvents == SelectSeq(events, LAMBDA e : e.what = "assign_machine")

Ended(outcome) ==
    Cardinality({ i \in DOMAIN MachineEvents : MachineEvents[i].outcome = outcome })

\* C14: in the assign phase a machine whose trait write was answered with
\* a conflict as often as the retry bound allows is an error of the
\* summary, and every machine handled is counted in exactly one of added,
\* already exists, hypervisor not found and errors: the four counts sum to
\* the number of deployed Intel/AMD machines handled.
C14_EveryMachineCountedOnce ==
    Started("assign_cpu_traits_to_hypervisors") =>
        /\ \A i \in DOMAIN MachineEvents :
             MachineEvents[i].still_conflicts => MachineEvents[i].outcome = "error"
        /\ counts.added = Ended("added")
        /\ counts.already_existed = Ended("already_exists")
        /\ counts.not_found = Ended("not_found")
        /\ counts.errors = Ended("error")
        /\ counts.added + counts.already_existed + counts.not_found + counts.errors
             = Len(MachineEvents)
        /\ Len(MachineEvents) + (IF run_pc = "assign_machine" THEN Len(todo) ELSE 0)
             = Len(DeployedMachines(Listed))

\* Two machines have been handled: the write for one ran out of retries,
\* the trait of the other was added.
C14_Witness ==
    /\ Exited
    /\ \E i \in DOMAIN MachineEvents : MachineEvents[i].still_conflicts
    /\ counts.errors = 1 /\ counts.added = 1
    /\ Len(DeployedMachines(Listed)) = 2


\* The trait operations of which the run has logged something.
Performed(operations) == \E i \in DOMAIN events : events[i].what \in operations

CreateOperation == {"create_openstack_traits", "create_trait"}

AssignOperation == {"assign_cpu_traits_to_hypervisors", "assign_machine"}

ClearOperation == {"clear_openstack_traits", "clear_resource_provider", "delete_trait"}

\* C15: with --clear-openstack-traits next to --create-openstack-traits
\* or --assign-traits-to-hypervisors, and with
\* --assign-traits-to-hypervisors without --create-openstack-traits, main
\* exits with status 1 before the analyzer exists and before any request;
\* and a run performs the clear operation or create (with or without
\* assign), never both, and assign only with create.
C15_OperationsExclusive ==
    /\ ( /\ run_pc # "main"
         /\ \/ /\ args.clear_openstack_traits
               /\ args.create_openstack_traits \/ args.assign_traits_to_hypervisors
            \/ args.assign_traits_to_hypervisors /\ ~args.create_openstack_traits )
       => /\ Exited /\ exit_status = 1
          /\ events = <<>> /\ http_log = <<>>
          /\ session = 0 /\ sessions.created = 0
    /\ ~(Performed(ClearOperation) /\ Performed(CreateOperation \cup AssignOperation))
    /\ Performed(AssignOperation) => args.create_openstack_traits
    /\ Performed(CreateOperation) => ~args.clear_openstack_traits
    /\ Performed(ClearOperation) =>
         ~args.create_openstack_traits /\ ~args.assign_traits_to_hypervisors

\* main has rejected --clear-openstack-traits with --create-openstack-traits.
C15_Witness ==
    /\ Exited /\ exit_status = 1 /\ events = <<>>
    /\ args.clear_openstack_traits /\ args.create_openstack_traits
    /\ ~args.assign_traits_to_hypervisors


\* The place of an event in the order of run: the inventory, the machine
\* table, the CPU distribution, the creation of the traits, their
\* assignment.
PhaseOf(e) ==
    CASE e.what = "MAASCPUAnalyzer" -> 0
      [] e.what = "GET /api/2.0/machines/" -> 1
      [] e.what = "print_machine_table" -> 2
      [] e.what = "print_cpu_distribution" -> 3
      [] e.what \in CreateOperation -> 4
      [] e.what \in AssignOperation -> 5
      [] OTHER -> 6

Phases == { PhaseOf(events[i]) : i \in DOMAIN events }

\* The creation phase is over at position i of the events.
CreationOver(i) ==
    /\ events[i].what = "create_openstack_traits"
    /\ events[i].outcome \in {"summary", "no models"}

\* C16: the events of a run follow the order inventory, machine table,
\* CPU distribution, creation, assignment, none of the first three twice
\* and none without the ones before it; a machine is handled by the
\* assign loop only after the creation phase has printed its summary; and
\* a run in clear mode fetches no inventory, prints no table and creates
\* and assigns nothing.
C16_PhasesInOrder ==
    /\ \A i, j \in DOMAIN events : i < j => PhaseOf(events[i]) <= PhaseOf(events[j])
    /\ \A i, j \in DOMAIN events :
         (i < j /\ PhaseOf(events[i]) = PhaseOf(events[j])) => PhaseOf(events[i]) >= 4
    /\ \A p \in Phases : p \in 1..5 => (0..(IF p = 5 THEN 3 ELSE p - 1)) \subseteq Phases
    /\ \A j \in DOMAIN events :
         events[j].what = "assign_machine" =>
           /\ \E i \in 1..(j - 1) : CreationOver(i)
           /\ \A i \in DOMAIN events : events[i].what = "create_trait" => i < j
    /\ ( /\ run_pc \in {"assign_cpu_traits_to_hypervisors", "assign_machine"}
         /\ args.create_openstack_traits )
         => \E i \in DOMAIN events : CreationOver(i)
    /\ args.clear_openstack_traits => Phases \subseteq {0, 6}
    /\ ~args.clear_openstack_traits => 6 \notin Phases

\* A create+assign run through all five phases has ended.
C16_Witness ==
    /\ Exited /\ exit_status = 0
    /\ Phases = 0..5
    /\ Performed({"create_trait"}) /\ Performed({"assign_machine"})

\* A clear run that cleared a provider and deleted a trait has ended.
C16_WitnessClear ==
    /\ Exited /\ exit_status = 0 /\ args.clear_openstack_traits
    /\ counts.cleared > 0 /\ counts.deleted > 0
    /\ machines = <<>>

-----------------------------------------------------------------------------
(* Properties of the placement client *)

\* C21: _make_placement_api_request raises ValueError and sends nothing to
\* the placement service when the placement endpoint cannot be determined or
\* no token can be obtained; when both are at hand the request is sent, with
\* that token and the version of the placement API in its headers.
C21_RequestNeedsEndpointAndToken ==
    last_call.op = "request" =>
      IF NonEmpty(placement_endpoint) /\ ~auth_token.none
        THEN /\ last_call.key[2]
             /\ last_call.key[1] # "ValueError"
             /\ last_call.value = [X_Auth_Token |-> auth_token,
                                   OpenStack_API_Version |-> "placement 1.6"]
        ELSE /\ ~last_call.key[2]
             /\ last_call.raised
             /\ last_call.key[1] = "ValueError"

\* C21 witness: a token was granted, the catalog holds no public placement
\* endpoint, and the call raised ValueError after its requests to the
\* identity service.
C21_Witness ==
    /\ last_call.op = "request"
    /\ last_call.key = <<"ValueError", FALSE>>
    /\ ~auth_token.none /\ ~service_catalog.none
    /\ last_call.requests = 2

\* C22: _create_trait returns (success, status), success being true exactly
\* when the status is not error; 200 and 201 give created, 204 gives
\* already_exists, any other response gives already_exists when it reports
\* that the trait exists and error otherwise, and an exception gives
\* (False, error).
C22_CreateTraitStatus ==
    last_call.op = "create_trait" =>
      LET response == last_call.key[1]
          sent == last_call.key[2]
          returned == last_call.value
      IN  /\ returned.status \in {"created", "already_exists", "error"}
          /\ (returned.success <=> (returned.status # "error"))
          /\ returned.status =
               IF ~sent \/ response.status_code = 0 THEN "error"
               ELSE IF response.status_code \in {200, 201} THEN "created"
               ELSE IF response.status_code = 204 THEN "already_exists"
               ELSE IF response.reports_existing THEN "already_exists"
               ELSE "error"

\* C23: _check_openstack_connectivity never raises, and returns True exactly
\* when a token and a placement endpoint are at hand after it.
C23_ConnectivityIsTokenAndEndpoint ==
    last_call.op = "connectivity" =>
      /\ ~last_call.raised
      /\ last_call.value = (~auth_token.none /\ NonEmpty(placement_endpoint))

\* C23 witness: the credentials are missing, _get_openstack_token raised,
\* and the check returned False.
C23_Witness ==
    /\ last_call.op = "connectivity"
    /\ ~environ.credentials
    /\ last_call.value = FALSE
    /\ last_call.requests = 0

-----------------------------------------------------------------------------
(* Properties of the assign and clear iterations *)

\* The requests of the iteration at hand that were sent as PUT.
PutsSent == SelectSeq(api_calls, LAMBDA r : r.method = "PUT" /\ Sent(r))

\* C24: when the list holds a provider named exactly as the hypervisor,
\* the provider selected for the hypervisor has that name, wherever it
\* stands among providers matching by case or by substring.
C24_ExactNameMatchWins ==
    (/\ caller = "assign"
     /\ provider # <<>>
     /\ \E i \in DOMAIN provider_list :
           provider_list[i].name = Str(hypervisor_hostname))
    => provider[1].name = Str(hypervisor_hostname)

\* C25: a provider without a name, or with the empty name, is never the
\* one selected for a hypervisor.
C25_NamelessProviderNeverSelected ==
    (caller = "assign" /\ provider # <<>>) => NonEmpty(provider[1].name)

\* C26: the tool has read the provider's traits; a write of its that the
\* service accepts leaves on the provider every trait it held when the
\* write was accepted, with the new trait added (assign) or with only the
\* CUSTOM_ traits removed (clear), whatever another writer did in between.
C26_NoLostUpdate ==
    [][(caller # "none" /\ traits_response = "ok" /\ pc = "put" /\ result' = "True")
       => Range(rp_traits') =
            IF caller = "assign"
              THEN Range(rp_traits) \cup {trait_name}
              ELSE Range(non_custom_traits(rp_traits))]_vars

\* C27: after a failed read of the provider's traits the assign loop sends
\* no PUT of a trait list to the provider.
C27_FailedReadWritesNothing ==
    (caller = "assign" /\ traits_response = "failed") => PutsSent = <<>>

\* C28: the clear loop calls _set_resource_provider_traits only for a
\* provider with a name and a uuid whose trait list, as read, holds a
\* CUSTOM_ trait, and the list it writes is the list read without its
\* CUSTOM_ traits, in the order read; an accepted write that no other
\* writer preceded leaves exactly that list on the provider.
C28_ClearWritesOnlyNonCustom ==
    (caller = "clear" /\ provider # <<>>) =>
      LET kept == SelectSeq(current_trait_names,
                            LAMBDA t : ~CUSTOM_TRAIT_PATTERN_match(t))
      IN  /\ (pc \in {"get", "put"} \/ api_calls # <<>>) =>
               /\ NonEmpty(provider[1].name) /\ NonEmpty(provider[1].uuid)
               /\ traits_response = "ok"
               /\ Len(kept) < Len(current_trait_names)
               /\ trait_names = kept
               /\ \A i \in DOMAIN kept : \E j \in DOMAIN current_trait_names :
                     /\ kept[i] = current_trait_names[j]
                     /\ ~CUSTOM_TRAIT_PATTERN_match(kept[i])
          \* one step of the generation: the accepted write was the only one
          /\ (result = "True" /\ rp_generation = MaxGeneration) => rp_traits = kept

\* a list with two other traits around a CUSTOM_ one was cleared
C28_Witness ==
    /\ caller = "clear"
    /\ result = "True"
    /\ current_trait_names =
         << <<"H","W","_","B">>, CUSTOM_ \o <<"X">>, <<"H","W","_","A">> >>
    /\ rp_traits = << <<"H","W","_","B">>, <<"H","W","_","A">> >>
    /\ PutsSent # <<>>

-----------------------------------------------------------------------------
(* Properties of the assign phase of run *)

\* C29: every machine the assign loop visits, and so every machine it sends
\* a request to the placement service for, is one that filter_machines
\* lets through with the run's zone, flag and tags, has status Deployed and
\* has an Intel or AMD CPU model.
C29_AssignOnlyDeployedVendorMachines ==
    \A i \in DOMAIN events :
      events[i].what = "assign_machine" =>
        \E j \in DOMAIN machines :
          /\ machines[j].hostname = events[i].item
          /\ machines[j].status_name = "Deployed"
          /\ HasVendor(machines[j])
          /\ \E k \in DOMAIN filter_machines(machines, zone, deployed_only, tags).list :
                filter_machines(machines, zone, deployed_only, tags).list[k] = machines[j]

\* without the deployed-only flag, a run over a Deployed and a Ready Intel
\* machine has written the trait of the first and has ended
C29_Witness ==
    /\ run_pc = "exited"
    /\ ~deployed_only
    /\ Len(machines) = 2
    /\ machines[1].hostname = <<"n","1">> /\ machines[1].status_name = "Deployed"
    /\ machines[2].hostname = <<"n","3">> /\ machines[2].status_name = "Ready"
    /\ HasVendor(machines[2])
    /\ \E i \in DOMAIN events :
         /\ events[i].what = "assign_machine"
         /\ events[i].item = <<"n","1">>
         /\ events[i].outcome = "added"

====
